---- MODULE Spec2Model ----
(***************************************************************************)
(* A model of stcpp, a small C preprocessor: the macro table (macro.c),    *)
(* the in-place macro substitution engine (macro.c), the integer           *)
(* expression evaluator (exprint.c), the directive dispatcher with its     *)
(* condition stack (cmdline.c) and the main read loop (main.c).            *)
(*                                                                         *)
(* C strings live in arrays of characters.  An array is a sequence of      *)
(* one-character strings, a pointer into it is a 0-based offset, and the   *)
(* terminator is the value NUL.  Every scanning function of the source is  *)
(* an operator over (array, offset, end offset) that walks the array the   *)
(* way the C loop does, reads past the terminator included.                *)
(***************************************************************************)
EXTENDS Integers, Sequences, FiniteSets, TLC

VARIABLES
  macroList,        \* macro.c: Macro *macroList, in list order
  bannedMacroList,  \* macro.c: BannedMacro *bannedMacroList, head first
  cmdcond,          \* cmdline.c: cmdcond_t *cmdcond, innermost frame first
  condstate,        \* cmdline.c: int condstate
  ifdepth,          \* cmdline.c: static int ifdepth of processcmdline
  linebuf,          \* main.c: char buf[4096] of main, as one array
  instream,         \* input.c: the current instream_t: [line, fname, parent],
                    \* parent the streams below it, the nearest first
  optind,           \* main.c: the options getopt has handed out so far
  pc,               \* main.c: where main is: "args", "loop", "expand", or how
                    \* it ended: "eof", "error", "usage", "crash"
  last,             \* what the last step read and did (observation)
  hist,             \* history of the run, kept for the properties
  pb                \* the processBuffer call of main in progress

vars == <<macroList, bannedMacroList, cmdcond, condstate, ifdepth, linebuf, instream,
          optind, pc, last, hist, pb>>

-----------------------------------------------------------------------------
(* Characters (ctype.h in the "C" locale, over the characters the model uses) *)

\* a function over 1..n, written out as the tuple of its values
Array(f) == SubSeq(f, 1, Len(f))

\* the element of a set of one element: {e(x) : x \in {v}} computes v once,
\* however often e uses it
Only(S) == CHOOSE x \in S : TRUE

NUL == "NUL"
DQ == "\""
BS == "\\"
NULLP == 0 - 1

LowerLetters == {"a","b","c","d","e","f","g","h","i","j","k","l","m",
                 "n","o","p","q","r","s","t","u","v","w","x","y","z"}
UpperLetters == {"A","B","C","D","E","F","G","H","I","J","K","L","M",
                 "N","O","P","Q","R","S","T","U","V","W","X","Y","Z"}
Digits == {"0","1","2","3","4","5","6","7","8","9"}

isspace(c) == c \in {" ", "\t"}
isalpha(c) == c \in LowerLetters \cup UpperLetters
isdigit(c) == c \in Digits
isalnum(c) == isalpha(c) \/ isdigit(c)

tolower(c) ==
  CASE c = "A" -> "a" [] c = "B" -> "b" [] c = "C" -> "c" [] c = "D" -> "d"
    [] c = "E" -> "e" [] c = "F" -> "f" [] c = "L" -> "l" [] c = "U" -> "u"
    [] c = "X" -> "x" [] OTHER -> c

\* *(m + p): the character at offset p of array m.  One past the last cell
\* reads as the terminator.
At(m, p) == IF p >= 0 /\ p < Len(m) THEN m[p + 1] ELSE NUL

\* strlen(m + p): the distance to the first terminator
strlen(m, p) ==
  CHOOSE n \in 0..Len(m) : At(m, p + n) = NUL /\ \A k \in 0..(n - 1) : At(m, p + k) # NUL

\* the C string that starts at offset p of m, without its terminator
CStr(m, p) == SubSeq(m, p + 1, p + strlen(m, p))

\* an array of n cells holding the C string s, its terminator, and then
\* whatever the memory held before (every stale cell holds junk)
Mem(s, n, junk) ==
  Array([i \in 1..n |->
           IF i <= Len(s) THEN s[i] ELSE IF i = Len(s) + 1 THEN NUL ELSE junk])

-----------------------------------------------------------------------------
(* macro.c: the scanners *)

RECURSIVE skipSpaces(_, _, _)
skipSpaces(m, buf, end) ==
  IF buf < end /\ isspace(At(m, buf)) THEN skipSpaces(m, buf + 1, end) ELSE buf

RECURSIVE skipStringLoop(_, _, _)
skipStringLoop(m, buf, end) ==
  LET b == buf + 1
  IN IF b < end /\ ~(At(m, b) = DQ /\ At(m, b - 1) # BS)
     THEN skipStringLoop(m, b, end)
     ELSE b

skipString(m, buf, end) ==
  LET b == skipStringLoop(m, buf, end)
  IN IF b < end THEN b + 1 ELSE b

RECURSIVE skipNumberLoop(_, _, _)
skipNumberLoop(m, buf, end) ==
  IF buf < end
  THEN LET c == tolower(At(m, buf))
       IN IF c = "u" \/ c = "l" THEN buf + 1
          ELSE IF ~isdigit(c) /\ c \notin {"x", "a", "b", "c", "d", "e", "f"}
               THEN buf
               ELSE skipNumberLoop(m, buf + 1, end)
  ELSE buf

skipNumber(m, buf, end) ==
  IF ~isdigit(At(m, buf)) THEN buf ELSE skipNumberLoop(m, buf + 1, end)

RECURSIVE skipExpressionLoop(_, _, _, _)
skipExpressionLoop(m, buf, end, count) ==
  IF buf < end /\ count > 0
  THEN LET b == buf + 1
           c == At(m, b)
       IN CASE c = "(" -> skipExpressionLoop(m, b, end, count + 1)
            [] c = ")" -> skipExpressionLoop(m, b, end, count - 1)
            [] c = DQ  -> skipExpressionLoop(m, skipString(m, b, end), end, count)
            [] OTHER   -> skipExpressionLoop(m, b, end, count)
  ELSE buf

skipExpression(m, buf, end) == skipExpressionLoop(m, buf, end, 1)

isIdent(c, idx) ==
  IF idx < 0 \/ c = NUL THEN FALSE
  ELSE IF idx > 0 THEN isalnum(c) \/ c = "_" ELSE isalpha(c) \/ c = "_"

\* while (buf < end && isIdent(*buf, i++)) buf++;   with i = buf - from
RECURSIVE identEnd(_, _, _, _)
identEnd(m, from, buf, end) ==
  IF buf < end /\ isIdent(At(m, buf), buf - from)
  THEN identEnd(m, from, buf + 1, end)
  ELSE buf

-----------------------------------------------------------------------------
(* macro.c: the macro table.  A Macro is [name, param, replace]: param is   *)
(* the MacroParam list (<<>> is the NULL list of an object-like macro, a    *)
(* parameter whose name is NULL is <<>>), replace is the replacement text   *)
(* (<<>> is the NULL of an empty replacement).                              *)

\* the parameter list of addMacro: while (buf < end) { ... }.  nuls are the
\* offsets where the scan has written a terminator into the string
RECURSIVE addMacroParams(_, _, _, _, _)
addMacroParams(s, buf, end, params, nuls) ==
  IF buf >= end THEN [ok |-> TRUE, params |-> params, buf |-> buf, nuls |-> nuls]
  ELSE
    LET \* the name [token, b2) has been scanned, b4 is behind the spaces
        \* that follow it
        named(token, b2, c0, b4) ==
          LET c == IF isspace(c0) THEN At(s, b4) ELSE c0
              b5 == IF isspace(c0) THEN b4 + 1 ELSE b2 + 1
              ps == Append(params, SubSeq(s, token + 1, b2))
              ns == nuls \cup {b2}
              fail == [ok |-> FALSE, params |-> params, buf |-> b2, nuls |-> ns]
          IN IF isspace(c0) /\ b4 >= end THEN fail
             ELSE IF c = ")" THEN [ok |-> TRUE, params |-> ps, buf |-> b5, nuls |-> ns]
             ELSE IF c # "," THEN fail
             ELSE addMacroParams(s, b5, end, ps, ns)
        scanned(token, b2) ==
          IF b2 >= end
          THEN [ok |-> FALSE, params |-> params, buf |-> b2, nuls |-> nuls]
          ELSE Only({named(token, b2, At(s, b2), b4) : b4 \in {skipSpaces(s, b2 + 1, end)}})
        spaced(token) ==
          Only({scanned(token, b2) : b2 \in {identEnd(s, token, token, end)}})
    IN Only({spaced(token) : token \in {skipSpaces(s, buf, end)}})

isMacroBanned(banned, name) == \E i \in 1..Len(banned) : banned[i] = name

\* int addMacro(char *buf): s is the C string at buf.  [rtn, list, nuls]:
\* nuls are the offsets of s where addMacro has written a terminator
addMacro(list, banned, s) ==
  LET end == Len(s)
      out(rtn, l, ns) == [rtn |-> rtn, list |-> l, nuls |-> {i \in ns : i < end}]
      \* the parameter list has been read, the replacement text starts at b
      listed(name, pr, b) ==
        IF ~pr.ok
        THEN out(0 - 1, list, pr.nuls)
        ELSE out(0, Append(list, [name |-> name, param |-> pr.params,
                                  replace |-> SubSeq(s, b + 1, end)]),
                 pr.nuls)
      params(name, pr) == Only({listed(name, pr, b) : b \in {skipSpaces(s, pr.buf, end)}})
      \* the name is [n0, n1)
      named(n0, n1, type, name) ==
        IF name = <<>> \/ type \notin {" ", "(", NUL}
        THEN out(0 - 1, list, {n1})
        ELSE IF isMacroBanned(banned, name)
        THEN out(0, list, {n1})
        ELSE Only({params(name, pr) :
                     pr \in {IF type = "("
                             THEN addMacroParams(s, n1 + 1, end, <<>>, {n1})
                             ELSE [ok |-> TRUE, params |-> <<>>,
                                   buf |-> IF n1 < end THEN n1 + 1 ELSE n1,
                                   nuls |-> {n1}]}})
      spaced(n0) ==
        Only({named(n0, n1, At(s, n1), SubSeq(s, n0 + 1, n1)) :
                n1 \in {identEnd(s, n0, n0, end)}})
  IN Only({spaced(n0) : n0 \in {skipSpaces(s, 0, end)}})

\* Macro *findMacro(char *start, char *end): the index of the first entry
\* named name, 0 for NULL
RECURSIVE findMacroFrom(_, _, _)
findMacroFrom(list, name, i) ==
  IF i > Len(list) THEN 0
  ELSE IF list[i].name = name THEN i
  ELSE findMacroFrom(list, name, i + 1)

findMacro(list, name) == findMacroFrom(list, name, 1)

isdefinedMacro(list, name) == IF findMacro(list, name) # 0 THEN 1 ELSE 0

\* int deleteMacro(char *name): unlinks the first entry named name.  [rtn, list]
deleteMacro(list, name) ==
  LET i == findMacro(list, name)
  IN IF i = 0 THEN [rtn |-> 0 - 1, list |-> list]
     ELSE [rtn |-> 0,
           list |-> SubSeq(list, 1, i - 1) \o SubSeq(list, i + 1, Len(list))]

\* int banMacro(char *name).  [rtn, list, banned]
banMacro(list, banned, name) ==
  [rtn |-> 0, list |-> deleteMacro(list, name).list, banned |-> <<name>> \o banned]

\* int addCommandLineMacro(const char *definition): -DNAME, -DNAME=value
RECURSIVE strchrFrom(_, _, _)
strchrFrom(s, c, i) ==
  IF i > Len(s) THEN 0 ELSE IF s[i] = c THEN i ELSE strchrFrom(s, c, i + 1)

addCommandLineMacro(list, banned, definition) ==
  LET eq == strchrFrom(definition, "=", 1)
  IN IF definition = <<>> \/ eq = 1 THEN [rtn |-> 0 - 1, list |-> list, nuls |-> {}]
     ELSE addMacro(list, banned,
                   IF eq = 0 THEN definition \o <<" ", "1">>
                   ELSE SubSeq(definition, 1, eq - 1) \o <<" ">>
                          \o SubSeq(definition, eq + 1, Len(definition)))

-----------------------------------------------------------------------------
(* macro.c: substitution in place *)

\* memmove(m + dst, m + src, n)
memmove(m, dst, src, n) ==
  Array([i \in 1..Len(m) |->
     IF i - 1 >= dst /\ i - 1 < dst + n THEN At(m, src + (i - 1 - dst)) ELSE m[i]])

\* memcpy(m + dst, s, Len(s))
memcpy(m, dst, s) ==
  Array([i \in 1..Len(m) |->
     IF i - 1 >= dst /\ i - 1 < dst + Len(s) THEN s[i - dst] ELSE m[i]])

\* the bytes of m from offset a up to, not including, offset b
Bytes(m, a, b) == Array([i \in 1..(b - a) |-> At(m, a + i - 1)])

\* the bytes s read as a C string: up to the first terminator
RECURSIVE cstr(_)
cstr(s) == IF s = <<>> \/ Head(s) = NUL THEN <<>> ELSE <<Head(s)>> \o cstr(Tail(s))

\* char *replaceBuf(char *start, char *buf, char *end, char *replace).
\* [p, m, ub]: p is NULLP when the text does not fit; ub when memmove is
\* handed a negative length (buf lies behind the terminator)
replaceBuf(m, start, buf, end, replace) ==
  LET endstr == start + strlen(m, start)
      rlen == Len(replace)
      n == endstr - buf + 1
  IN IF start + rlen + (endstr - buf) >= end
     THEN [p |-> NULLP, m |-> m, ub |-> FALSE]
     ELSE IF n < 0
     THEN [p |-> start + rlen, m |-> m, ub |-> TRUE]
     ELSE [p |-> start + rlen,
           m |-> Only({memcpy(moved, start, replace) :
                         moved \in {memmove(m, start + rlen, buf, n)}}),
           ub |-> FALSE]

\* int stringifyParameter(const char *value, char *result, size_t result_size),
\* for a value that fits the 512 bytes of the result
RECURSIVE stringifyEscape(_)
stringifyEscape(s) ==
  IF s = <<>> THEN <<>>
  ELSE (IF Head(s) = DQ \/ Head(s) = BS THEN <<BS, Head(s)>> ELSE <<Head(s)>>)
         \o stringifyEscape(Tail(s))

stringifyParameter(value) == <<DQ>> \o stringifyEscape(value) \o <<DQ>>

\* findEndOfParameter, one pass of its while loop from buf: the position the
\* next pass starts at, buf itself when the loop has ended
findEndOfParameterStep(m, buf, end) ==
  IF buf < end /\ At(m, buf) # "," /\ At(m, buf) # ")"
  THEN LET string(b1) == (IF At(m, b1) = "(" THEN skipExpression(m, b1, end) ELSE b1) + 1
       IN Only({string(b1) :
                  b1 \in {IF At(m, buf) = DQ THEN skipString(m, buf, end) ELSE buf}})
  ELSE buf

\* passes[p + 1] is where a number of passes of the loop take position p:
\* where twice that number of passes take it
findEndOfParameterTwice(passes) ==
  Only({Array([p \in 1..Len(f) |-> f[f[p] + 1]]) : f \in {passes}})

\* char *findEndOfParameter(char *buf, char *end): the while loop, run from
\* every position up to end + 2, the furthest a pass can reach, for 64
\* passes, which is more than a buffer of BufSize characters takes
findEndOfParameter(m, buf, end) ==
  IF buf >= end THEN buf
  ELSE findEndOfParameterTwice(findEndOfParameterTwice(findEndOfParameterTwice(
         findEndOfParameterTwice(findEndOfParameterTwice(findEndOfParameterTwice(
           Array([p \in 1..(end + 3) |-> findEndOfParameterStep(m, p - 1, end)])))))))[buf + 1]

\* processMacro, lines 1006-1054: binds the actual arguments to the formal
\* parameters.  [ok, buf, bound]: bound is the parammacro list
RECURSIVE bindArgs(_, _, _, _, _, _)
bindArgs(m, buf, end, params, k, bound) ==
  IF k > Len(params) THEN [ok |-> TRUE, buf |-> buf, bound |-> bound]
  ELSE
    LET \* the argument is [paramstart, b2)
        argument(paramstart, b2, c) ==
          LET fail == [ok |-> FALSE, buf |-> b2, bound |-> bound]
          IN IF paramstart >= end \/ b2 >= end THEN fail
             ELSE IF c = ")" /\ params[k] = <<>>
             THEN (IF b2 = paramstart
                   THEN [ok |-> TRUE, buf |-> b2 + 1, bound |-> bound]
                   ELSE fail)
             ELSE IF c = ")" /\ k < Len(params) THEN fail
             ELSE IF c = "," /\ k = Len(params) THEN fail
             ELSE bindArgs(m, b2 + 1, end, params, k + 1,
                           Append(bound, [name |-> params[k],
                                          replace |-> cstr(Bytes(m, paramstart, b2))]))
        spaced(paramstart) ==
          Only({argument(paramstart, b2, At(m, b2)) :
                  b2 \in {findEndOfParameter(m, paramstart, end)}})
    IN Only({spaced(paramstart) : paramstart \in {skipSpaces(m, buf, end)}})

\* the search of the parammacro list for the name tok: the index found, 0
\* for none, NULLP when strlen is handed the NULL name of a parameter
RECURSIVE findParam(_, _, _)
findParam(bound, tok, i) ==
  IF i > Len(bound) THEN 0
  ELSE IF bound[i].name = <<>> THEN NULLP
  ELSE IF bound[i].name = tok THEN i
  ELSE findParam(bound, tok, i + 1)

\* removeDoubleHash: the scans for the ends of the two tokens
RECURSIVE rdhLeftEnd(_, _, _)
rdhLeftEnd(m, buf, p) ==
  IF p >= buf /\ isspace(At(m, p)) THEN rdhLeftEnd(m, buf, p - 1) ELSE p

RECURSIVE rdhLeftQuote(_, _, _)
rdhLeftQuote(m, buf, p) ==
  IF p > buf /\ At(m, p) # DQ THEN rdhLeftQuote(m, buf, p - 1) ELSE p

RECURSIVE rdhLeftIdent(_, _, _)
rdhLeftIdent(m, buf, p) ==
  IF p > buf /\ (isalnum(At(m, p - 1)) \/ At(m, p - 1) = "_")
  THEN rdhLeftIdent(m, buf, p - 1)
  ELSE p

RECURSIVE rdhRightQuote(_, _, _)
rdhRightQuote(m, endmacro, p) ==
  IF p < endmacro /\ At(m, p) # DQ THEN rdhRightQuote(m, endmacro, p + 1) ELSE p

RECURSIVE rdhRightNumber(_, _, _)
rdhRightNumber(m, endmacro, p) ==
  IF p < endmacro /\ (isalnum(At(m, p)) \/ At(m, p) = ".")
  THEN rdhRightNumber(m, endmacro, p + 1)
  ELSE p

RECURSIVE rdhRightIdent(_, _, _)
rdhRightIdent(m, endmacro, p) ==
  IF p < endmacro /\ (isalnum(At(m, p)) \/ At(m, p) = "_")
  THEN rdhRightIdent(m, endmacro, p + 1)
  ELSE p

\* void removeDoubleHash(char *buf, char *endmacro): the array afterwards.
\* The pasted token fits the 256 bytes of its buffer.
RECURSIVE removeDoubleHashLoop(_, _, _, _)
removeDoubleHashLoop(m, buf, endmacro, paste_pos) ==
  IF paste_pos < endmacro - 1
  THEN
    IF At(m, paste_pos) = "#" /\ At(m, paste_pos + 1) = "#"
    THEN
      LET \* the two tokens are [left_start, left_end] and [right_start, right_end)
          paste(left_start, left_end, right_start, right_end, pasted) ==
            LET remaining_len == (endmacro + strlen(m, endmacro)) - right_end
                new_len == Len(pasted)
                moved == IF new_len - (right_end - left_start) # 0
                         THEN memmove(m, left_start + new_len, right_end, remaining_len + 1)
                         ELSE m
            IN IF left_start <= left_end /\ right_start < right_end
               THEN [m |-> memcpy(moved, left_start, pasted),
                     paste_pos |-> left_start + new_len]
               ELSE [m |-> memmove(m, paste_pos, paste_pos + 2,
                                   strlen(m, paste_pos + 2) + 1),
                     paste_pos |-> paste_pos]
          tokens(left_start, left_end, right_start, right_end) ==
            LET intoString == left_start < left_end /\ At(m, left_start) = DQ
                              /\ At(m, left_end) = DQ
                              /\ ~(right_start < right_end /\ At(m, right_start) = DQ)
            IN Only({paste(left_start, left_end, right_start, right_end, pasted) :
                       pasted \in {IF intoString
                                   THEN Bytes(m, left_start, left_end)
                                          \o Bytes(m, right_start, right_end) \o <<DQ>>
                                   ELSE Bytes(m, left_start, left_end + 1)
                                          \o Bytes(m, right_start, right_end)}})
          rightEnd(right_start, rq) ==
            IF right_start < endmacro /\ At(m, right_start) = DQ
            THEN (IF rq < endmacro /\ At(m, rq) = DQ THEN rq + 1 ELSE rq)
            ELSE IF right_start < endmacro /\ isdigit(At(m, right_start))
            THEN rdhRightNumber(m, endmacro, right_start)
            ELSE rdhRightIdent(m, endmacro, right_start)
          ends(left_end, right_start) ==
            Only({tokens(left_start, left_end, right_start, right_end) :
                    left_start \in {IF left_end >= buf /\ At(m, left_end) = DQ
                                    THEN rdhLeftQuote(m, buf, left_end - 1)
                                    ELSE rdhLeftIdent(m, buf, left_end)},
                    right_end \in {Only({rightEnd(right_start, rq) :
                                           rq \in {rdhRightQuote(m, endmacro,
                                                                 right_start + 1)}})}})
      IN Only({removeDoubleHashLoop(r.m, buf, endmacro, r.paste_pos) :
                 r \in {Only({ends(left_end, right_start) :
                                left_end \in {rdhLeftEnd(m, buf, paste_pos - 1)},
                                right_start \in {skipSpaces(m, paste_pos + 2, endmacro)}})}})
    ELSE removeDoubleHashLoop(m, buf, endmacro, paste_pos + 1)
  ELSE m

removeDoubleHash(m, buf, endmacro) == removeDoubleHashLoop(m, buf, endmacro, buf)

\* decimal digits of a number n >= 0 (snprintf "%d")
RECURSIVE Itoa(_)
Itoa(n) ==
  LET d == <<"0","1","2","3","4","5","6","7","8","9">>[(n % 10) + 1]
  IN IF n < 10 THEN <<d>> ELSE Itoa(n \div 10) \o <<d>>

NAME_LINE == <<"_","_","L","I","N","E","_","_">>
NAME_FILE == <<"_","_","F","I","L","E","_","_">>

\* getBuiltinMacro without the adjustment for the newline rawchar has counted
getBuiltinMacroUnadjusted(env, name) ==
  IF name = NAME_LINE THEN Itoa(env.line)
  ELSE IF name = NAME_FILE THEN <<DQ>> \o env.fname \o <<DQ>>
  ELSE <<>>

\* char *getBuiltinMacro(char *start, char *end): the text of __LINE__ or
\* __FILE__ for the current input stream, <<>> for NULL.  env.line is
\* in->line, env.fname is in->fname
getBuiltinMacro(env, name) ==
  IF name = NAME_LINE THEN Itoa(env.line - 1)
  ELSE IF name = NAME_FILE THEN <<DQ>> \o env.fname \o <<DQ>>
  ELSE <<>>

MAX_RESTARTS == 100

RECURSIVE processBufferRun(_, _, _, _)
RECURSIVE substParams(_, _, _, _, _, _, _, _)

\* int processMacro(char *buf, int len, int ifclausemode) at m + start.
\* env.list is macroList, exp is the static macro_expanded before the call.
\* [cnt, m, exp, ub]: the return value, the array and macro_expanded after
\* the call; ub when the call ran into undefined behaviour
processMacro(env, ifmode, m, start, len, exp) ==
  LET end == start + len
      res(cnt, mm, e, u) == [cnt |-> cnt, m |-> mm, exp |-> e, ub |-> u]
      \* buf = replaceBuf(...); return buf - start;   (NULL is not checked)
      unchecked(r, e) == IF r.p = NULLP THEN res(0, r.m, e, TRUE)
                         ELSE res(r.p - start, r.m, e, r.ub)
      \* the macro is none of the table
      unknown(b0, name) ==
        LET builtin == getBuiltinMacro(env, name)
            b1 == IF At(m, b0) = "(" THEN skipExpression(m, b0, end) ELSE b0
        IN IF builtin # <<>>
           THEN Only({unchecked(r, TRUE) : r \in {replaceBuf(m, start, b0, end, builtin)}})
           ELSE IF ifmode
           THEN Only({unchecked(r, exp) : r \in {replaceBuf(m, start, b1, end, <<"0">>)}})
           ELSE res(b1 - start, m, exp, FALSE)
      \* the parameters have been substituted
      substituted(sp) ==
        IF sp.ub THEN res(0, sp.m, TRUE, TRUE)
        ELSE IF ~sp.ok THEN res(0 - 1, sp.m, sp.exp, FALSE)
        ELSE res(sp.buf - start, removeDoubleHash(sp.m, start, sp.buf), sp.exp, FALSE)
      \* the replacement text has been written
      replaced(ba, r) ==
        IF r.p = NULLP THEN res(0 - 1, m, TRUE, FALSE)
        ELSE IF r.ub THEN res(0, m, TRUE, TRUE)
        ELSE Only({substituted(sp) :
                     sp \in {IF ba.bound # <<>>
                             THEN substParams(env, start, end, ba.bound, r.m, start, r.p,
                                              TRUE)
                             ELSE [ok |-> TRUE, m |-> r.m, buf |-> r.p, exp |-> TRUE,
                                   ub |-> FALSE]}})
      \* the arguments have been bound
      bound(macro, ba) ==
        IF ~ba.ok THEN res(0 - 1, m, TRUE, FALSE)
        ELSE IF ifmode /\ macro.replace = <<>>
        THEN Only({unchecked(r, TRUE) : r \in {replaceBuf(m, start, ba.buf, end, <<"0">>)}})
        ELSE Only({replaced(ba, r) :
                     r \in {replaceBuf(m, start, ba.buf, end, macro.replace)}})
      \* the macro is entry mi of the table
      known(b0, macro) ==
        Only({bound(macro, ba) :
                ba \in {IF macro.param = <<>> THEN [ok |-> TRUE, buf |-> b0, bound |-> <<>>]
                        ELSE IF At(m, b0) # "("
                        THEN [ok |-> FALSE, buf |-> b0, bound |-> <<>>]
                        ELSE bindArgs(m, b0 + 1, end, macro.param, 1, <<>>)}})
      named(b0, name, mi) ==
        IF b0 = start THEN res(1, m, exp, FALSE)
        ELSE IF mi = 0 THEN unknown(b0, name)
        ELSE known(b0, env.list[mi])
      scanned(b0, name) == named(b0, name, findMacro(env.list, name))
  IN Only({scanned(b0, Bytes(m, start, b0)) : b0 \in {identEnd(m, start, start, end + 1)}})

\* processMacro, lines 1067-1149: stringification and parameter substitution
\* in the replacement text just written at [start, buf).  bound is the
\* parammacro list.  [ok, m, buf, exp, ub]
substParams(env, start, end, bound, m, token, buf, exp) ==
  LET \* go on: [m, token, buf, exp] of the next pass, or how the loop ended
      out(ok, mm, b, e, u) ==
        [done |-> TRUE, ok |-> ok, m |-> mm, buf |-> b, exp |-> e, ub |-> u]
      next(mm, t, b, e) == [done |-> FALSE, m |-> mm, token |-> t, buf |-> b, exp |-> e]
      \* #param, the parameter bound[i] stringified: nested is the expansion of
      \* its value
      stringified(param_end, raw, nested) ==
        Only({IF nested.status = "ub" \/ r.ub THEN out(FALSE, m, buf, exp, TRUE)
              ELSE IF r.p = NULLP THEN out(FALSE, m, buf, nested.exp, FALSE)
              ELSE next(r.m, r.p, buf + (r.p - param_end), nested.exp) :
                r \in {replaceBuf(m, token, param_end, end,
                                  stringifyParameter(IF nested.status = "ok"
                                                     THEN CStr(nested.m, 0) ELSE raw))}})
      stringify(param_end, i) ==
        IF i = NULLP THEN out(FALSE, m, buf, exp, TRUE)
        ELSE IF i = 0 THEN next(m, token + 1, buf, exp)
        ELSE Only({stringified(param_end, bound[i].replace, nested) :
                     nested \in {processBufferRun(env, FALSE, 2,
                                   [m |-> Mem(bound[i].replace, Len(bound[i].replace) + 2,
                                              NUL),
                                    start |-> 0, end |-> Len(bound[i].replace), buf |-> 0,
                                    rc |-> 0, exp |-> exp, status |-> "run"])}})
      \* the identifier at token is the name of bound[i]
      substitute(i) ==
        IF i = NULLP THEN out(FALSE, m, buf, exp, TRUE)
        ELSE IF i = 0 THEN next(m, token + 1, buf, exp)
        ELSE Only({IF r.ub THEN out(FALSE, m, buf, exp, TRUE)
                   ELSE IF r.p = NULLP THEN out(FALSE, m, buf, exp, FALSE)
                   ELSE next(r.m, r.p, buf + (r.p - token), exp) :
                     r \in {replaceBuf(m, token, token + Len(bound[i].name), end,
                                       bound[i].replace)}})
      pass ==
        IF token >= buf THEN out(TRUE, m, buf, exp, FALSE)
        ELSE IF At(m, token) = "#" /\ token + 1 < buf /\ isIdent(At(m, token + 1), 0)
                /\ ~(token > start /\ At(m, token - 1) = "#")
        THEN Only({stringify(param_end, findParam(bound, Bytes(m, token + 1, param_end), 1)) :
                     param_end \in {identEnd(m, token + 1, token + 1, buf)}})
        ELSE IF isIdent(At(m, token), token - start)
        THEN Only({substitute(i) :
                     i \in {findParam(bound,
                                      Bytes(m, token, identEnd(m, token, token, buf)), 1)}})
        ELSE next(m, token + 1, buf, exp)
  IN Only({IF r.done THEN [ok |-> r.ok, m |-> r.m, buf |-> r.buf, exp |-> r.exp, ub |-> r.ub]
           ELSE substParams(env, start, end, bound, r.m, r.token, r.buf, r.exp) :
             r \in {pass}})

\* restart_count that is never counted up
restartedNever(restart_count) == restart_count

\* restart_count++ of processBuffer
restarted(restart_count) == restart_count + 1

\* one pass of the while loop of processBuffer.  st is [m, start, end, buf,
\* rc, exp, status]: the array, the loop's pointers, restart_count, the static
\* macro_expanded, and "run", or how the call ended: "ok" (returns 0), "err"
\* (returns -1), "ub" (undefined behaviour)
processBufferStep(env, ifmode, st) ==
  LET \* the identifier at b has been handled by processMacro
      expanded(b, r) ==
        IF r.ub THEN [st EXCEPT !.m = r.m, !.buf = b, !.status = "ub"]
        ELSE IF r.cnt < 0 THEN [st EXCEPT !.m = r.m, !.buf = b, !.status = "err"]
        ELSE IF r.exp /\ st.rc < MAX_RESTARTS
        THEN [st EXCEPT !.m = r.m, !.buf = b, !.rc = restarted(st.rc), !.exp = r.exp]
        ELSE [st EXCEPT !.m = r.m, !.buf = b + r.cnt, !.rc = 0, !.exp = r.exp]
      \* the white space has been skipped
      token(b, c) ==
        IF isIdent(c, 0)
        THEN Only({expanded(b, r) :
                     r \in {processMacro(env, ifmode, st.m, b, st.end - b, FALSE)}})
        ELSE IF c = DQ /\ ~(b > st.start /\ At(st.m, b - 1) = BS)
        THEN [st EXCEPT !.buf = skipString(st.m, b, st.end)]
        ELSE IF isdigit(c)
        THEN [st EXCEPT !.buf = skipNumber(st.m, b, st.end)]
        ELSE [st EXCEPT !.buf = b + 1, !.rc = 0]
  IN IF ~(st.buf < st.end /\ At(st.m, st.buf) # NUL) THEN [st EXCEPT !.status = "ok"]
     ELSE Only({token(b, At(st.m, b)) : b \in {skipSpaces(st.m, st.buf, st.end)}})

\* up to 2^k passes of the while loop, or fewer when the call has ended
RECURSIVE processBufferLoop(_, _, _, _)
processBufferLoop(env, ifmode, k, st) ==
  CASE st.status # "run" -> st
    [] k = 0 -> processBufferStep(env, ifmode, st)
    [] OTHER -> processBufferLoop(env, ifmode, k - 1,
                                  processBufferLoop(env, ifmode, k - 1, st))

\* the while loop of processBuffer: 2^k passes, then 2^(k+1), until the call
\* has ended
processBufferRun(env, ifmode, k, st) ==
  IF st.status # "run" THEN st
  ELSE processBufferRun(env, ifmode, k + 1, processBufferLoop(env, ifmode, k, st))

processBufferStart(m, start, len) ==
  [m |-> m, start |-> start, end |-> start + len, buf |-> start, rc |-> 0,
   exp |-> FALSE, status |-> "run"]

\* int processBuffer(char *buf, int len, int ifclausemode) at m + start.
\* [rtn, m, ub]
processBuffer(env, ifmode, m, start, len) ==
  Only({[rtn |-> IF f.status = "ok" THEN 0 ELSE 0 - 1, m |-> f.m, ub |-> f.status = "ub"] :
          f \in {processBufferRun(env, ifmode, 2, processBufferStart(m, start, len))}})

-----------------------------------------------------------------------------
(* exprint.h: typedef long result_t.  A result_t is the sequence of its 8   *)
(* bytes, least significant first, in two's complement; the arithmetic is   *)
(* the machine's: sums, differences and products wrap around.               *)

LONG_BYTES == 8
INT_BYTES == 4

\* 2^EvalDepth steps are enough to evaluate an expression that fits the buffer
EvalDepth == 8

\* the result_t of a number 0 <= n < 2^31
Long(n) ==
  Array([i \in 1..LONG_BYTES |-> IF i <= INT_BYTES THEN (n \div 256^(i - 1)) % 256 ELSE 0])

IsZero(a) == \A i \in 1..LONG_BYTES : a[i] = 0
IsNeg(a) == a[LONG_BYTES] >= 128
Bool(b) == IF b THEN Long(1) ELSE Long(0)

\* the bytes of the number whose i-th base-256 digit is cols[i] >= 0, cut to
\* 8 bytes: c[i] is the carry out of byte i, the last carry is dropped
Normalize(cols) ==
  LET c1 == cols[1] \div 256
      c2 == (cols[2] + c1) \div 256
      c3 == (cols[3] + c2) \div 256
      c4 == (cols[4] + c3) \div 256
      c5 == (cols[5] + c4) \div 256
      c6 == (cols[6] + c5) \div 256
      c7 == (cols[7] + c6) \div 256
  IN <<cols[1] % 256, (cols[2] + c1) % 256, (cols[3] + c2) % 256,
       (cols[4] + c3) % 256, (cols[5] + c4) % 256, (cols[6] + c5) % 256,
       (cols[7] + c6) % 256, (cols[8] + c7) % 256>>

One(i) == IF i = 1 THEN 1 ELSE 0

Add(a, b) == Normalize([i \in 1..LONG_BYTES |-> a[i] + b[i]])
Not(a) == Array([i \in 1..LONG_BYTES |-> 255 - a[i]])
Neg(a) == Normalize([i \in 1..LONG_BYTES |-> (255 - a[i]) + One(i)])
Sub(a, b) == Normalize([i \in 1..LONG_BYTES |-> a[i] + (255 - b[i]) + One(i)])

\* a * x + d for small numbers x and d (a base and a digit)
MulAddSmall(a, x, d) == Normalize([i \in 1..LONG_BYTES |-> a[i] * x + d * One(i)])

\* the sum of a[i] * b[k + 1 - i] for i in lo..hi
RECURSIVE ColSum(_, _, _, _, _)
ColSum(a, b, k, lo, hi) ==
  IF lo > hi THEN 0
  ELSE IF lo = hi THEN a[lo] * b[k + 1 - lo]
  ELSE ColSum(a, b, k, lo, (lo + hi) \div 2) + ColSum(a, b, k, ((lo + hi) \div 2) + 1, hi)

Mul(a, b) == Normalize([k \in 1..LONG_BYTES |-> ColSum(a, b, k, 1, k)])

Bits8(x) == [k \in 1..8 |-> (x \div 2^(k - 1)) % 2]
Byte(b) == b[1] + 2 * b[2] + 4 * b[3] + 8 * b[4] + 16 * b[5] + 32 * b[6] + 64 * b[7] + 128 * b[8]
And8(x, y) == Byte([k \in 1..8 |-> Bits8(x)[k] * Bits8(y)[k]])
Xor8(x, y) == Byte([k \in 1..8 |-> (Bits8(x)[k] + Bits8(y)[k]) % 2])
BitAnd(a, b) == Array([i \in 1..LONG_BYTES |-> And8(a[i], b[i])])
BitXor(a, b) == Array([i \in 1..LONG_BYTES |-> Xor8(a[i], b[i])])
BitOr(a, b) == Array([i \in 1..LONG_BYTES |-> a[i] + b[i] - And8(a[i], b[i])])

\* a << n and a >> n for 0 <= n <= 63; >> of a signed long keeps the sign (sar)
ShiftLeft(a, n) ==
  LET q == n \div 8
      r == n % 8
      byte(j) == IF j >= 1 THEN a[j] ELSE 0
  IN Array([i \in 1..LONG_BYTES |->
              ((byte(i - q) * 2^r) % 256) + (byte(i - q - 1) \div 2^(8 - r))])

ShiftRight(a, n) ==
  LET q == n \div 8
      r == n % 8
      byte(j) == IF j <= LONG_BYTES THEN a[j] ELSE IF IsNeg(a) THEN 255 ELSE 0
  IN Array([i \in 1..LONG_BYTES |->
              (byte(i + q) \div 2^r) + ((byte(i + q + 1) % 2^r) * 2^(8 - r))])

\* a < b as unsigned numbers: the highest byte that differs decides
ULess(a, b) ==
  LET d == {i \in 1..LONG_BYTES : a[i] # b[i]}
      top == CHOOSE i \in d : \A j \in d : j <= i
  IN d # {} /\ a[top] < b[top]

Less(a, b) == IF IsNeg(a) # IsNeg(b) THEN IsNeg(a) ELSE ULess(a, b)

\* unsigned long division of n by d # 0, bit u.i of n at a time from the top:
\* u.q is the quotient so far, u.r the remainder
UDivStep(n, d, u) ==
  LET byte == ((u.i - 1) \div 8) + 1
      bit == ((u.i - 1) % 8) + 1
      r1 == MulAddSmall(u.r, 2, Bits8(n[byte])[bit])
      fits == ~ULess(r1, d)
  IN [i |-> u.i - 1,
      q |-> IF fits THEN [u.q EXCEPT ![byte] = @ + 2^(bit - 1)] ELSE u.q,
      r |-> IF fits THEN Sub(r1, d) ELSE r1]

\* up to 2^k bits
RECURSIVE UDivRun(_, _, _, _)
UDivRun(n, d, k, u) ==
  CASE u.i = 0 -> u
    [] k = 0 -> UDivStep(n, d, u)
    [] OTHER -> UDivRun(n, d, k - 1, UDivRun(n, d, k - 1, u))

UDiv(n, d) == UDivRun(n, d, 6, [i |-> 8 * LONG_BYTES, q |-> Long(0), r |-> Long(0)])

Abs(a) == IF IsNeg(a) THEN Neg(a) ELSE a
LONG_MIN == Array([i \in 1..LONG_BYTES |-> IF i = LONG_BYTES THEN 128 ELSE 0])

\* a / b and a % b of C for b # 0: the quotient is cut towards zero, the
\* remainder has the sign of a
Div(a, b) ==
  Only({IF IsNeg(a) # IsNeg(b) THEN Neg(u.q) ELSE u.q : u \in {UDiv(Abs(a), Abs(b))}})

Mod(a, b) ==
  Only({IF IsNeg(a) THEN Neg(u.r) ELSE u.r : u \in {UDiv(Abs(a), Abs(b))}})

\* idiv traps on a zero divisor and on LONG_MIN / -1
DivTraps(a, b) == IsZero(b) \/ (a = LONG_MIN /\ b = Not(Long(0)))

\* a shift count is defined when it is in 0..63
ShiftDefined(a) == a[1] < 64 /\ \A i \in 2..LONG_BYTES : a[i] = 0
ShiftCount(a) == a[1]

\* (int)a: the low 4 bytes, read as a signed int
IntOf(a) ==
  LET low == a[1] + 256 * a[2] + 65536 * a[3] + 16777216 * (a[4] % 128)
  IN IF a[INT_BYTES] >= 128 THEN (low - 2147483647) - 1 ELSE low

\* the code of a character (ASCII); the terminator is 0
AsciiPrintable ==
  <<" ", "!", DQ, "#", "$", "%", "&", "'", "(", ")", "*", "+", ",", "-", ".", "/",
    "0", "1", "2", "3", "4", "5", "6", "7", "8", "9", ":", ";", "<", "=", ">", "?",
    "@", "A", "B", "C", "D", "E", "F", "G", "H", "I", "J", "K", "L", "M", "N", "O",
    "P", "Q", "R", "S", "T", "U", "V", "W", "X", "Y", "Z", "[", BS, "]", "^", "_",
    "GRAVE", "a", "b", "c", "d", "e", "f", "g", "h", "i", "j", "k", "l", "m", "n", "o",
    "p", "q", "r", "s", "t", "u", "v", "w", "x", "y", "z", "{", "|", "}", "~">>

Ord(c) ==
  IF c = NUL THEN 0
  ELSE IF c = "\t" THEN 9
  ELSE IF c = "\n" THEN 10
  ELSE 31 + (CHOOSE i \in 1..Len(AsciiPrintable) : AsciiPrintable[i] = c)

-----------------------------------------------------------------------------
(* exprint.c: the recursive-descent evaluator, run as the machine runs it.  *)
(* s.stack is the call stack: one frame per active call, the running one    *)
(* first.  A frame is [fn, at, result, op, base, true_expr]: the function,  *)
(* the place in its body where it goes on, and its locals.  s.v is the      *)
(* value the last call returned, s.p is *expr, s.err is expr_error, s.ub is *)
(* set when the evaluation runs into undefined behaviour (a trapping        *)
(* division, a shift count outside 0..63).                                  *)

isxdigit(c) == isdigit(c) \/ tolower(c) \in {"a", "b", "c", "d", "e", "f"}

\* isdigit(c) ? c - '0' : tolower(c) - 'a' + 10
digitValue(c) ==
  LET ds == <<"0", "1", "2", "3", "4", "5", "6", "7", "8", "9",
              "a", "b", "c", "d", "e", "f">>
  IN (CHOOSE i \in 1..Len(ds) : ds[i] = tolower(c)) - 1

Frame(fn) ==
  [fn |-> fn, at |-> "entry", result |-> Long(0), op |-> NUL, base |-> 10,
   true_expr |-> Long(0)]

\* the running function, its frame now f, calls fn(expr) with *expr = p
Call(s, f, p, fn) == [s EXCEPT !.stack = <<Frame(fn), f>> \o Tail(@), !.p = p]

\* the running function returns v
Return(s, v) == [s EXCEPT !.stack = Tail(@), !.v = v]

\* the running function goes on in its own body, its frame now f
Goto(s, f, p) == [s EXCEPT !.stack[1] = f, !.p = p]

\* the process is stopped by a signal
Trap(s) == [s EXCEPT !.stack = <<>>, !.ub = TRUE]

\* expr_error = error_code; the 0 that set_error returns is the caller's result
set_error(s, error_code) == [s EXCEPT !.err = error_code]

parse_ternary(m, s) ==
  LET f == s.stack[1]
  IN CASE f.at = "entry" -> Call(s, [f EXCEPT !.at = "result"], s.p, "parse_logical_or")
       [] f.at = "result" ->
            IF At(m, s.p) = "?"
            THEN Call(s, [f EXCEPT !.at = "true_expr", !.result = s.v], s.p + 1,
                      "parse_ternary")
            ELSE Return(s, s.v)
       [] f.at = "true_expr" ->
            IF At(m, s.p) = ":"
            THEN Call(s, [f EXCEPT !.at = "false_expr", !.true_expr = s.v], s.p + 1,
                      "parse_ternary")
            ELSE Return(set_error(s, "EE_MISSINGCOLON"), Long(0))
       [] f.at = "false_expr" ->
            Return(s, IF ~IsZero(f.result) THEN f.true_expr ELSE s.v)

parse_logical_or(m, s) ==
  LET f == s.stack[1]
      result == IF f.at = "result" THEN s.v
                ELSE Bool(~IsZero(f.result) \/ ~IsZero(s.v))
  IN IF f.at = "entry"
     THEN Call(s, [f EXCEPT !.at = "result"], s.p, "parse_logical_and")
     ELSE IF At(m, s.p) = "|" /\ At(m, s.p + 1) = "|"
     THEN Call(s, [f EXCEPT !.at = "rhs", !.result = result], s.p + 2, "parse_ternary")
     ELSE Return(s, result)

parse_logical_and(m, s) ==
  LET f == s.stack[1]
      result == IF f.at = "result" THEN s.v
                ELSE Bool(~IsZero(f.result) /\ ~IsZero(s.v))
  IN IF f.at = "entry"
     THEN Call(s, [f EXCEPT !.at = "result"], s.p, "parse_bitwise_or")
     ELSE IF At(m, s.p) = "&" /\ At(m, s.p + 1) = "&"
     THEN Call(s, [f EXCEPT !.at = "rhs", !.result = result], s.p + 2, "parse_ternary")
     ELSE Return(s, result)

parse_bitwise_or(m, s) ==
  LET f == s.stack[1]
      result == IF f.at = "result" THEN s.v ELSE BitOr(f.result, s.v)
  IN IF f.at = "entry"
     THEN Call(s, [f EXCEPT !.at = "result"], s.p, "parse_bitwise_xor")
     ELSE IF At(m, s.p) = "|" /\ At(m, s.p + 1) # "|"
     THEN Call(s, [f EXCEPT !.at = "rhs", !.result = result], s.p + 1, "parse_ternary")
     ELSE Return(s, result)

parse_bitwise_xor(m, s) ==
  LET f == s.stack[1]
      result == IF f.at = "result" THEN s.v ELSE BitXor(f.result, s.v)
  IN IF f.at = "entry"
     THEN Call(s, [f EXCEPT !.at = "result"], s.p, "parse_bitwise_and")
     ELSE IF At(m, s.p) = "^"
     THEN Call(s, [f EXCEPT !.at = "rhs", !.result = result], s.p + 1, "parse_ternary")
     ELSE Return(s, result)

parse_bitwise_and(m, s) ==
  LET f == s.stack[1]
      result == IF f.at = "result" THEN s.v ELSE BitAnd(f.result, s.v)
  IN IF f.at = "entry"
     THEN Call(s, [f EXCEPT !.at = "result"], s.p, "parse_equality")
     ELSE IF At(m, s.p) = "&" /\ At(m, s.p + 1) # "&"
     THEN Call(s, [f EXCEPT !.at = "rhs", !.result = result], s.p + 1, "parse_ternary")
     ELSE Return(s, result)

parse_equality(m, s) ==
  LET f == s.stack[1]
      op == At(m, s.p)
      result == IF f.at = "result" THEN s.v
                ELSE IF f.at = "while" THEN f.result
                ELSE Bool((f.op = "=") = (f.result = s.v))
  IN IF f.at = "entry"
     THEN Call(s, [f EXCEPT !.at = "result"], s.p, "parse_relational")
     ELSE IF op = "=" \/ op = "!"
     THEN IF At(m, s.p + 1) = "="
          THEN Call(s, [f EXCEPT !.at = "rhs", !.result = result, !.op = op], s.p + 2,
                    "parse_ternary")
          ELSE Goto(s, [f EXCEPT !.at = "while", !.result = result], s.p + 1)
     ELSE Return(s, result)

parse_relational(m, s) ==
  LET f == s.stack[1]
      op == At(m, s.p)
      result == IF f.at = "result" THEN s.v
                ELSE IF f.op = "<=" THEN Bool(~Less(s.v, f.result))
                ELSE IF f.op = ">=" THEN Bool(~Less(f.result, s.v))
                ELSE IF f.op = "<" THEN Bool(Less(f.result, s.v))
                ELSE Bool(Less(s.v, f.result))
  IN IF f.at = "entry"
     THEN Call(s, [f EXCEPT !.at = "result"], s.p, "parse_shift")
     ELSE IF op = "<" \/ op = ">"
     THEN IF At(m, s.p + 1) = "="
          THEN Call(s, [f EXCEPT !.at = "rhs", !.result = result,
                                 !.op = IF op = "<" THEN "<=" ELSE ">="],
                    s.p + 2, "parse_ternary")
          ELSE Call(s, [f EXCEPT !.at = "rhs", !.result = result, !.op = op], s.p + 1,
                    "parse_ternary")
     ELSE Return(s, result)

parse_shift(m, s) ==
  LET f == s.stack[1]
      op == At(m, s.p)
      result == IF f.at = "result" THEN s.v
                ELSE IF f.op = "<" THEN ShiftLeft(f.result, ShiftCount(s.v))
                ELSE ShiftRight(f.result, ShiftCount(s.v))
  IN IF f.at = "entry"
     THEN Call(s, [f EXCEPT !.at = "result"], s.p, "parse_additive")
     ELSE IF f.at = "rhs" /\ ~ShiftDefined(s.v) THEN Trap(s)
     ELSE IF (op = "<" \/ op = ">") /\ At(m, s.p + 1) = op
     THEN Call(s, [f EXCEPT !.at = "rhs", !.result = result, !.op = op], s.p + 2,
               "parse_ternary")
     ELSE Return(s, result)

parse_additive(m, s) ==
  LET f == s.stack[1]
      op == At(m, s.p)
      result == IF f.at = "result" THEN s.v
                ELSE IF f.op = "+" THEN Add(f.result, s.v)
                ELSE Sub(f.result, s.v)
  IN IF f.at = "entry"
     THEN Call(s, [f EXCEPT !.at = "result"], s.p, "parse_multiplicative")
     ELSE IF op = "+" \/ op = "-"
     THEN Call(s, [f EXCEPT !.at = "rhs", !.result = result, !.op = op], s.p + 1,
               "parse_ternary")
     ELSE Return(s, result)

parse_multiplicative(m, s) ==
  LET f == s.stack[1]
      op == At(m, s.p)
  IN IF f.at = "entry"
     THEN Call(s, [f EXCEPT !.at = "result"], s.p, "parse_unary")
     ELSE IF f.at = "rhs" /\ f.op = "/" /\ IsZero(s.v)
     THEN Return(set_error(s, "EE_DIVBYZERO"), Long(0))
     ELSE IF f.at = "rhs" /\ f.op # "*" /\ DivTraps(f.result, s.v) THEN Trap(s)
     ELSE Only({IF op = "*" \/ op = "/" \/ op = "%"
                THEN Call(s, [f EXCEPT !.at = "rhs", !.result = r, !.op = op], s.p + 1,
                          "parse_ternary")
                ELSE Return(s, r) :
                  r \in {IF f.at = "result" THEN s.v
                         ELSE IF f.op = "*" THEN Mul(f.result, s.v)
                         ELSE IF f.op = "%" THEN Mod(f.result, s.v)
                         ELSE Div(f.result, s.v)}})

parse_unary(m, s) ==
  LET f == s.stack[1]
      op == At(m, s.p)
  IN IF f.at = "entry"
     THEN IF op = "+" \/ op = "-" \/ op = "!" \/ op = "~"
          THEN Call(s, [f EXCEPT !.at = "rhs", !.op = op], s.p + 1, "parse_primary")
          ELSE Call(s, [f EXCEPT !.at = "result"], s.p, "parse_primary")
     ELSE IF f.at = "result" THEN Return(s, s.v)
     ELSE Return(s, IF f.op = "+" THEN s.v
                    ELSE IF f.op = "-" THEN Neg(s.v)
                    ELSE IF f.op = "!" THEN Bool(IsZero(s.v))
                    ELSE Not(s.v))

RECURSIVE skipIsspace(_, _)
skipIsspace(m, p) == IF isspace(At(m, p)) THEN skipIsspace(m, p + 1) ELSE p

parse_primary(m, s) ==
  LET f == s.stack[1]
      p == skipIsspace(m, s.p)
      c == At(m, p)
  IN IF f.at = "entry"
     THEN IF c = "(" THEN Call(s, [f EXCEPT !.at = "paren"], p + 1, "parse_ternary")
          ELSE IF isdigit(c) THEN Call(s, [f EXCEPT !.at = "result"], p, "parse_number")
          ELSE IF c = "'"
          THEN Call(s, [f EXCEPT !.at = "result"], p, "parse_char_constant")
          ELSE Return(set_error([s EXCEPT !.p = p], "EE_UNEXPECTEDCHAR"), Long(0))
     ELSE IF f.at = "result" THEN Return(s, s.v)
     ELSE IF At(m, s.p) = ")" THEN Return([s EXCEPT !.p = s.p + 1], s.v)
     ELSE Return(set_error(s, "EE_MISSINGPAREN"), Long(0))

parse_number(m, s) ==
  LET f == s.stack[1]
      c == At(m, s.p)
      c1 == At(m, s.p + 1)
      suffix(p) == IF At(m, p) \in {"u", "U", "l", "L"} THEN p + 1 ELSE p
  IN IF f.at = "entry"
     THEN IF c # "0" THEN Goto(s, [f EXCEPT !.at = "while", !.base = 10], s.p)
          ELSE IF c1 = "x" \/ c1 = "X"
          THEN Goto(s, [f EXCEPT !.at = "while", !.base = 16], s.p + 2)
          ELSE IF c1 = "b" \/ c1 = "B"
          THEN Goto(s, [f EXCEPT !.at = "while", !.base = 2], s.p + 2)
          ELSE Goto(s, [f EXCEPT !.at = "while", !.base = 8], s.p + 1)
     ELSE IF isxdigit(c)
     THEN IF digitValue(c) >= f.base
          THEN Return(set_error([s EXCEPT !.p = suffix(s.p)], "EE_INVALDIGIT"), Long(0))
          ELSE Goto(s, [f EXCEPT !.result = MulAddSmall(@, f.base, digitValue(c))],
                    s.p + 1)
     ELSE Return([s EXCEPT !.p = suffix(s.p)], f.result)

parse_char_constant(m, s) ==
  IF At(m, s.p) = "'"
  THEN Return([s EXCEPT !.p = IF At(m, s.p + 2) = "'" THEN s.p + 3 ELSE s.p + 2],
              Long(Ord(At(m, s.p + 1))))
  ELSE Return(s, Long(0))

\* the running function takes its next step
EvalStep(m, s) ==
  LET fn == s.stack[1].fn
  IN CASE fn = "parse_ternary" -> parse_ternary(m, s)
       [] fn = "parse_logical_or" -> parse_logical_or(m, s)
       [] fn = "parse_logical_and" -> parse_logical_and(m, s)
       [] fn = "parse_bitwise_or" -> parse_bitwise_or(m, s)
       [] fn = "parse_bitwise_xor" -> parse_bitwise_xor(m, s)
       [] fn = "parse_bitwise_and" -> parse_bitwise_and(m, s)
       [] fn = "parse_equality" -> parse_equality(m, s)
       [] fn = "parse_relational" -> parse_relational(m, s)
       [] fn = "parse_shift" -> parse_shift(m, s)
       [] fn = "parse_additive" -> parse_additive(m, s)
       [] fn = "parse_multiplicative" -> parse_multiplicative(m, s)
       [] fn = "parse_unary" -> parse_unary(m, s)
       [] fn = "parse_primary" -> parse_primary(m, s)
       [] fn = "parse_number" -> parse_number(m, s)
       [] fn = "parse_char_constant" -> parse_char_constant(m, s)

\* up to 2^k steps, or fewer when the first call has returned
RECURSIVE EvalRun(_, _, _)
EvalRun(m, k, s) ==
  CASE s.stack = <<>> -> s
    [] k = 0 -> EvalStep(m, s)
    [] OTHER -> EvalRun(m, k - 1, EvalRun(m, k - 1, s))

\* result_t evaluate_expression(const char *expr) for expr = m + p.
\* [v, p, err, ub]: the value returned, and expr_error afterwards.  An
\* expression of at most BufSize characters is evaluated in fewer than
\* 2^EvalDepth steps.
evaluate_expression(m, p) ==
  Only({[v |-> r.v, p |-> r.p, err |-> r.err, ub |-> r.ub] :
          r \in {x \in {EvalRun(m, EvalDepth,
                                [stack |-> <<Frame("parse_ternary")>>, v |-> Long(0),
                                 p |-> p, err |-> "EE_OK", ub |-> FALSE])} :
                   x.stack = <<>>}})

-----------------------------------------------------------------------------
(* cmdline.c: directives *)

cmdnames ==
  << <<>>,
     <<"i", "n", "c", "l", "u", "d", "e">>,
     <<"d", "e", "f", "i", "n", "e">>,
     <<"u", "n", "d", "e", "f">>,
     <<"i", "f">>,
     <<"i", "f", "d", "e", "f">>,
     <<"i", "f", "n", "d", "e", "f">>,
     <<"e", "l", "s", "e">>,
     <<"e", "l", "i", "f">>,
     <<"e", "n", "d", "i", "f">>,
     <<"e", "r", "r", "o", "r">>,
     <<"p", "r", "a", "g", "m", "a">>,
     <<"l", "i", "n", "e">> >>

cmdtoken ==
  <<"EMPTY", "INCLUDE", "DEFINE", "UNDEF", "IF", "IFDEF", "IFNDEF", "ELSE", "ELIF",
    "ENDIF", "ERROR", "PRAGMA", "LINE">>

\* int iscmdline(char *line)
iscmdline(m) == At(m, 0) = "#"

\* cmdtoken_t getcmdtype(char *cmd) for cmd = m + start
getcmdtype(m, start) ==
  LET cmd == CStr(m, start)
      hits == {i \in 1..Len(cmdnames) : cmdnames[i] = cmd}
  IN IF hits = {} THEN "UNKNOWN" ELSE cmdtoken[CHOOSE i \in hits : TRUE]

NotSpace(c) == ~isspace(c)

\* void stripspaces(char *buf) at m + p: the characters that are not spaces
\* move to the front, the terminator follows them
stripspaces(m, p) ==
  memcpy(m, p, SelectSeq(CStr(m, p), NotSpace) \o <<NUL>>)

DEFINED == <<"d", "e", "f", "i", "n", "e", "d">>

\* strstr(m + p, "defined"): the offset of the first occurrence, or NULLP
strstrDefined(m, p) ==
  LET hits == {i \in p..(p + strlen(m, p) - Len(DEFINED)) :
                 Bytes(m, i, i + Len(DEFINED)) = DEFINED}
  IN IF hits = {} THEN NULLP ELSE CHOOSE i \in hits : \A j \in hits : i <= j

\* strchr(m + p, c): the offset of the first c before the terminator, or NULLP
strchr(m, p, c) ==
  LET hits == {i \in p..(p + strlen(m, p) - 1) : At(m, i) = c}
  IN IF hits = {} THEN NULLP ELSE CHOOSE i \in hits : \A j \in hits : i <= j

\* the while loop of check_defined.  [rtn, m]
RECURSIVE check_defined_loop(_, _, _, _)
check_defined_loop(list, m, start0, strend) ==
  LET \* the name is [macro_start, macro_end)
      named(start, pmode, paren, macro_start, macro_end) ==
        IF macro_end = macro_start THEN [rtn |-> 0 - 1, m |-> m]
        ELSE Only({check_defined_loop(list, r.m, start + 1, start + strlen(r.m, start) + 1) :
                     r \in {replaceBuf(m, start, IF pmode THEN paren ELSE macro_end, strend,
                                       IF isdefinedMacro(list,
                                                         Bytes(m, macro_start, macro_end)) = 1
                                       THEN <<"1">> ELSE <<"0">>)}})
      name(start, pmode, paren, macro_start) ==
        Only({named(start, pmode, paren, macro_start, macro_end) :
                macro_end \in {identEnd(m, macro_start, macro_start,
                                        IF pmode THEN paren ELSE strend)}})
      operand(start, buf, pmode, paren) ==
        IF pmode /\ paren = NULLP THEN [rtn |-> 0 - 1, m |-> m]
        ELSE Only({name(start, pmode, paren, macro_start) :
                     macro_start \in {skipIsspace(m, IF pmode THEN buf + 1 ELSE buf)}})
      \* buf is behind the keyword and the spaces that follow it
      keyword(start, buf) ==
        Only({operand(start, buf, At(m, buf) = "(", paren) :
                paren \in {strchr(m, buf + 1, ")")}})
      found(start) ==
        IF start = NULLP THEN [rtn |-> 0, m |-> m]
        ELSE Only({keyword(start, buf) : buf \in {skipIsspace(m, start + Len(DEFINED))}})
  IN IF ~(start0 < strend) THEN [rtn |-> 0, m |-> m]
     ELSE Only({found(start) : start \in {strstrDefined(m, start0)}})

\* int check_defined(char *buf, char *end) at m + buf.  [rtn, m]
check_defined(list, m, buf, end) ==
  LET strend == buf + strlen(m, buf) + 1
  IN IF buf >= end \/ strend >= end THEN [rtn |-> 0 - 1, m |-> m]
     ELSE check_defined_loop(list, m, buf, strend)

\* int evalifexpr(char *buf, char *end, result_t *result) at m + buf.
\* [rtn, m, result, ub]
evalifexpr(env, m, buf, end) ==
  LET out(rtn, mm, v, ub) == [rtn |-> rtn, m |-> mm, result |-> v, ub |-> ub]
      evaluated(m3, ev) ==
        IF ev.ub THEN out(0 - 1, m3, ev.v, TRUE)
        ELSE IF ev.err # "EE_OK" THEN out(0 - 1, m3, ev.v, FALSE)
        ELSE out(0, m3, ev.v, FALSE)
  IN Only({IF cd.rtn # 0 THEN out(0 - 1, cd.m, Long(0), FALSE)
           ELSE Only({IF xp.ub THEN out(0 - 1, xp.m, Long(0), TRUE)
                      ELSE IF xp.rtn # 0 THEN out(0 - 1, xp.m, Long(0), FALSE)
                      ELSE Only({Only({evaluated(m3, ev) :
                                         ev \in {evaluate_expression(m3, buf)}}) :
                                   m3 \in {stripspaces(xp.m, buf)}}) :
                        xp \in {processBuffer(env, TRUE, cd.m, buf, end - buf)}}) :
             cd \in {check_defined(env.list, stripspaces(m, buf), buf, end)}})

\* the files of the current directory, besides the input file
Files == {<<"h">>}

\* char *checkpath(const char *fname, int flag): CPATH is not set, so the
\* list of search directories is empty and a file is found only by
\* access(fname, R_OK) in the current directory, which flag allows
checkpath(fname, flag) == flag # 0 /\ fname \in Files

\* int newinstream(const char *fname, int flag) over the current stream in.
\* [rtn, instream]
newinstream(in, fname, flag) ==
  IF ~checkpath(fname, flag) THEN [rtn |-> 0 - 1, instream |-> in]
  ELSE [rtn |-> 0,
        instream |-> [line |-> 1, fname |-> fname,
                      parent |-> <<[line |-> in.line, fname |-> in.fname]>> \o in.parent]]

\* int do_include(char *buf, char *end) at m + buf, over the current stream
\* in.  [rtn, m, instream]
do_include(in, m, buf, end) ==
  LET strend == buf + strlen(m, buf) + 1
      out(rtn, mm, stream) == [rtn |-> rtn, m |-> mm, instream |-> stream]
      opened(mm, fname_start, flag) ==
        Only({out(n.rtn, mm, n.instream) :
                n \in {newinstream(in, CStr(mm, fname_start), flag)}})
      named(fname_start, fname_end, flag) ==
        IF fname_end = NULLP THEN out(0 - 1, m, in)
        ELSE opened([m EXCEPT ![fname_end + 1] = NUL], fname_start, flag)
      angle == strchr(m, buf, "<")
      quote == strchr(m, buf, DQ)
  IN IF buf >= end \/ strend >= end THEN out(0 - 1, m, in)
     ELSE IF angle # NULLP THEN named(angle + 1, strchr(m, angle + 1, ">"), 0)
     ELSE IF quote # NULLP THEN named(quote + 1, strchr(m, quote + 1, DQ), 1)
     ELSE out(0 - 1, m, in)

\* while (buf < end && *buf != ' ' && *buf != '\n' && *buf != '\0') ++buf;
RECURSIVE commandEnd(_, _, _)
commandEnd(m, buf, end) ==
  IF buf < end /\ At(m, buf) \notin {" ", "\n", NUL}
  THEN commandEnd(m, buf + 1, end)
  ELSE buf

\* popCond without condstate = 1
popCondOnly(g) == [g EXCEPT !.cmdcond = Tail(@)]

\* free(cmdcond); cmdcond = cmdcond->prev; condstate = 1;
popCond(g) == [g EXCEPT !.cmdcond = Tail(@), !.condstate = 1]

\* cmdcond = tmp with tmp->state = COND_IF, tmp->ifstate = ifstate;
\* condstate = tmp->ifstate; ifdepth = 0;
pushCond(g, ifstate) ==
  [g EXCEPT !.cmdcond = <<[state |-> "COND_IF", ifstate |-> ifstate]>> \o @,
            !.condstate = ifstate, !.ifdepth = 0]

\* !x of C
LogicalNot(x) == IF x = 0 THEN 1 ELSE 0

\* the writes of addMacro into its argument, which starts at offset at of m
writeNuls(m, at, nuls) ==
  Array([i \in 1..Len(m) |-> IF (i - 1) - at \in nuls THEN NUL ELSE m[i]])

\* switch (cmd) of processcmdline.  [rtn, m, g, ub, result]
processcmd(g, env, cmd, m, buf, end) ==
  LET out(rtn, mm, gg, ub, v) ==
        [rtn |-> rtn, m |-> mm, g |-> gg, ub |-> ub, result |-> v]
      include(inc) ==
        IF inc.ub THEN out(0 - 1, inc.m, g, TRUE, Long(0))
        ELSE IF inc.rtn # 0 THEN out(0 - 1, inc.m, g, FALSE, Long(0))
        ELSE Only({out(d.rtn, d.m, [g EXCEPT !.instream = d.instream], FALSE, Long(0)) :
                     d \in {do_include(g.instream, inc.m, buf + 1, end)}})
      define(add) ==
        out(0, writeNuls(m, buf + 1, add.nuls), [g EXCEPT !.macroList = add.list],
            FALSE, Long(0))
      if(ev) ==
        IF ev.rtn # 0 THEN out(0 - 1, ev.m, g, ev.ub, ev.result)
        ELSE out(0, ev.m, pushCond(g, IntOf(ev.result)), FALSE, ev.result)
      ifdef(def) == out(0, m, pushCond(g, def), FALSE, Long(0))
      ifndef(def) == out(0, m, pushCond(g, LogicalNot(def)), FALSE, Long(0))
  IN CASE cmd = "INCLUDE" ->
            Only({include(inc) : inc \in {processBuffer(env, FALSE, m, buf, end - buf)}})
       [] cmd = "DEFINE" ->
            Only({define(add) :
                    add \in {addMacro(g.macroList, g.bannedMacroList, CStr(m, buf + 1))}})
       [] cmd = "UNDEF" ->
            out(0, m, [g EXCEPT !.macroList = deleteMacro(@, CStr(m, buf + 1)).list],
                FALSE, Long(0))
       [] cmd = "IF" -> Only({if(ev) : ev \in {evalifexpr(env, m, buf + 1, end)}})
       [] cmd = "IFDEF" ->
            Only({ifdef(def) : def \in {isdefinedMacro(g.macroList, CStr(m, buf + 1))}})
       [] cmd = "IFNDEF" ->
            Only({ifndef(def) : def \in {isdefinedMacro(g.macroList, CStr(m, buf + 1))}})
       [] OTHER -> out(0, m, g, FALSE, Long(0))

\* condstate = !cmdcond->ifstate; cmdcond->state = COND_ELSE;
elseCond(g) ==
  [g EXCEPT !.condstate = LogicalNot(g.cmdcond[1].ifstate), !.cmdcond[1].state = "COND_ELSE"]

\* skipDirective without the tests of ifdepth
skipDirectiveAnyDepth(g, cmd) ==
  IF cmd \in {"IF", "IFDEF", "IFNDEF"} THEN [g EXCEPT !.ifdepth = @ + 1]
  ELSE IF cmd = "ELSE" THEN elseCond(g)
  ELSE IF cmd = "ENDIF" THEN popCond(g)
  ELSE g

\* processcmdline, if (condstate == 0) { ... return 0; }: the globals after
\* the directive cmd has been read in a branch that is skipped
skipDirective(g, cmd) ==
  IF cmd \in {"IF", "IFDEF", "IFNDEF"} THEN [g EXCEPT !.ifdepth = @ + 1]
  ELSE IF cmd = "ELSE" THEN (IF g.ifdepth > 0 THEN g ELSE elseCond(g))
  ELSE IF cmd = "ENDIF"
  THEN (IF g.ifdepth > 0 THEN [g EXCEPT !.ifdepth = @ - 1] ELSE popCond(g))
  ELSE g

\* processcmdline, if (cmdcond != NULL) { ... }: what the directive cmd does
\* to the running condition.  [switch, g, m, v] when the call goes on to the
\* switch with the globals g, [switch, r] when it returns r before
processcmdcond(g, env, cmd, m, buf, end) ==
  LET top == g.cmdcond[1]
      out(rtn, mm, gg, ub, v) ==
        [rtn |-> rtn, m |-> mm, g |-> gg, ub |-> ub, result |-> v, cmd |-> cmd]
      return(r) == [switch |-> FALSE, r |-> r]
      switch(gg, mm, v) ==
        IF gg.condstate = 0 THEN return(out(0, mm, gg, FALSE, v))
        ELSE [switch |-> TRUE, g |-> gg, m |-> mm, v |-> v]
      elif(ev) ==
        IF ev.rtn # 0 THEN return(out(0 - 1, ev.m, g, ev.ub, ev.result))
        ELSE switch([g EXCEPT !.condstate = IntOf(ev.result),
                              !.cmdcond[1].ifstate = IntOf(ev.result)],
                    ev.m, ev.result)
  IN IF g.cmdcond = <<>> THEN [switch |-> TRUE, g |-> g, m |-> m, v |-> Long(0)]
     ELSE IF g.condstate = 0
     THEN return(out(0, m, skipDirective(g, cmd), FALSE, Long(0)))
     ELSE IF cmd = "ENDIF" THEN switch(popCond(g), m, Long(0))
     ELSE IF top.state = "COND_ELSE" /\ cmd \in {"ELIF", "ELSE"}
     THEN return(out(0 - 1, m, g, FALSE, Long(0)))
     ELSE IF top.state = "COND_IF" /\ cmd = "ELSE" THEN switch(elseCond(g), m, Long(0))
     ELSE IF top.state = "COND_IF" /\ cmd = "ELIF"
     THEN Only({elif(ev) : ev \in {evalifexpr(env, m, buf + 1, end)}})
     ELSE switch(g, m, Long(0))

\* int processcmdline(char *buf, int size) on the array m0.  g is the globals
\* [macroList, bannedMacroList, cmdcond, condstate, ifdepth], env the table
\* and the position in the input.  [rtn, m, g, ub, result, cmd]: result is
\* the value of the expression of an #if or #elif that has been evaluated
processcmdline(g, env, m0, size) ==
  LET end == size - 1
      strend == 1 + strlen(m0, 1)
      start == IF At(m0, 1) = " " THEN 2 ELSE 1
      switched(cmd, c, r) ==
        [rtn |-> r.rtn, m |-> r.m, g |-> r.g, ub |-> r.ub,
         result |-> IF cmd = "ELIF" THEN c.v ELSE r.result, cmd |-> cmd]
  IN IF 1 >= end \/ strend >= end
     THEN [rtn |-> 0 - 1, m |-> m0, g |-> g, ub |-> FALSE, result |-> Long(0), cmd |-> "Err"]
     ELSE Only({Only({Only({Only({
            IF ~c.switch THEN c.r
            ELSE Only({switched(cmd, c, r) :
                         r \in {processcmd(c.g, env, cmd, c.m, buf, end)}}) :
              c \in {processcmdcond(g, env, cmd, m, buf, end)}}) :
              cmd \in {getcmdtype(m, start)}}) :
              m \in {[m0 EXCEPT ![buf + 1] = NUL]}}) :
              buf \in {commandEnd(m0, start, end)}})

-----------------------------------------------------------------------------
(* main.c: the options, then the read loop over the lines of the input *)

\* sizeof(buf) of main: the source has 4096
BufSize == 32
\* the lines of input a run reads at most
MaxLines == 4
\* the -D and -U options a command line holds at most
MaxOptions == 3
\* the included files that are open at a time at most
MaxNesting == 1

\* the name of the input file
FNAME == <<"a", ".", "c">>

\* the contents an automatic array can have before its first write
Junk == {NUL, "x"}

\* the globals of macro.c, cmdline.c and input.c, as processcmdline takes
\* them: rawchar() has counted the newline of the line that has been read
Globals ==
  [macroList |-> macroList, bannedMacroList |-> bannedMacroList, cmdcond |-> cmdcond,
   condstate |-> condstate, ifdepth |-> ifdepth,
   instream |-> [instream EXCEPT !.line = @ + 1]]

\* what the expansion reads of the input stream: rawchar() has counted the
\* newline of the line that has been read
Env == [list |-> macroList, line |-> instream.line + 1, fname |-> instream.fname]

\* int readline(instream_t *in, char *buf, int size) for a line of fewer than
\* size characters: the characters, then the terminator; the rest of the
\* array keeps what it held
readline(m, text) == memcpy(m, 0, text \o <<NUL>>)

\* strcat(buf, "\n") on the array m: [m, ub], ub when the newline or the
\* terminator falls outside the array
strcatNewline(m) ==
  LET n == strlen(m, 0)
  IN IF n + 1 >= Len(m) THEN [m |-> m, ub |-> TRUE]
     ELSE [m |-> memcpy(m, n, <<"\n", NUL>>), ub |-> FALSE]

\* the step of main ignores what processcmdline or processBuffer returns
hardErrorIgnored(rtn) == FALSE

\* main: if (processcmdline(...) != 0) and if (processBuffer(...) != 0),
\* the tests that end the read loop with break
hardError(rtn) == rtn # 0

\* the outcomes of a step: undefined behaviour may end the process
Outcomes(ub) == IF ub THEN {"crash", "go"} ELSE {"go"}

\* A line of input, or the argument of an option, with what it asks for:
\* op is the operation, name the macro or the tested name, arg the
\* replacement or the expression, names the names an expression tests
Line(text, op, name, arg, names) ==
  [text |-> text, op |-> op, name |-> name, arg |-> arg, names |-> names]

NoLine == Line(<<>>, "none", <<>>, <<>>, <<>>)

\* currentinstream before main has opened the input
NoStream == [line |-> 0, fname |-> <<>>, parent |-> <<>>]

\* no step has been taken yet
NoStep ==
  [op |-> "none", line |-> NoLine, rtn |-> 0, active |-> TRUE, emitted |-> FALSE,
   out |-> <<>>]

\* main is not inside processBuffer
Idle ==
  [m |-> <<>>, start |-> 0, end |-> 0, buf |-> 0, rc |-> 0, exp |-> FALSE,
   status |-> "idle"]

\* A conditional block as the language defines it: the truth of its
\* condition and whether its #else has been passed
RefFrame(cond) == [cond |-> cond, inelse |-> FALSE]
Selected(f) == f.cond # f.inelse
AllSelected(ref) == \A i \in 1..Len(ref) : Selected(ref[i])

\* the truth of the condition of an opening directive: the value of the
\* expression as a long, or the presence of the name in the table
RefCond(l) ==
  CASE l.op \in {"if", "ifident"} ->
         ~IsZero(evaluate_expression(Mem(l.arg, Len(l.arg) + 1, NUL), 0).v)
    [] l.op = "ifdefined" ->
         \E i \in 1..Len(l.names) : isdefinedMacro(macroList, l.names[i]) = 1
    [] l.op = "ifdef" -> isdefinedMacro(macroList, l.name) = 1
    [] l.op = "ifndef" -> isdefinedMacro(macroList, l.name) = 0
    [] OTHER -> FALSE

Opening == {"if", "ifdef", "ifndef", "ifdefined", "ifident"}

\* the history after a directive that processcmdline has accepted
HistDirective(h, l) ==
  LET act == AllSelected(h.ref)
  IN CASE l.op \in Opening ->
            [h EXCEPT !.ref = <<RefFrame(IF act THEN RefCond(l) ELSE FALSE)>> \o @]
       [] l.op = "else" ->
            IF h.ref # <<>> /\ ~h.ref[1].inelse
            THEN [h EXCEPT !.ref[1].inelse = TRUE]
            ELSE [h EXCEPT !.nested = FALSE]
       [] l.op = "endif" ->
            IF h.ref # <<>> THEN [h EXCEPT !.ref = Tail(@)]
            ELSE [h EXCEPT !.nested = FALSE]
       [] l.op \in {"define", "undef"} ->
            IF act THEN [h EXCEPT !.log = Append(@, [op |-> l.op, name |-> l.name, arg |-> l.arg])]
            ELSE h
       [] OTHER -> [h EXCEPT !.nested = FALSE]

Init ==
  /\ macroList = <<>>
  /\ bannedMacroList = <<>>
  /\ cmdcond = <<>>
  /\ condstate = 1
  /\ ifdepth = 0
  /\ linebuf \in {Array([i \in 1..BufSize |-> j]) : j \in Junk}
  /\ instream = NoStream
  /\ optind = 1
  /\ pc = "args"
  /\ last = NoStep
  /\ hist = [ref |-> <<>>, nested |-> TRUE, log |-> <<>>]
  /\ pb = Idle

\* main, case 'D': addCommandLineMacro(optarg), exit status 1 when it fails
OptionD(d) ==
  /\ pc = "args" /\ optind <= MaxOptions
  /\ \E r \in {addCommandLineMacro(macroList, bannedMacroList, d.text)} :
        /\ macroList' = r.list
        /\ pc' = IF r.rtn # 0 THEN "usage" ELSE "args"
        /\ last' = [NoStep EXCEPT !.op = "define", !.line = d, !.rtn = r.rtn]
        /\ hist' = IF r.rtn # 0 THEN hist
                   ELSE [hist EXCEPT !.log = Append(@, [op |-> "define", name |-> d.name,
                                                        arg |-> d.arg])]
  /\ optind' = optind + 1
  /\ UNCHANGED <<bannedMacroList, cmdcond, condstate, ifdepth, linebuf, instream, pb>>

\* main, case 'U': banMacro(optarg)
OptionU(u) ==
  /\ pc = "args" /\ optind <= MaxOptions
  /\ \E r \in {banMacro(macroList, bannedMacroList, u.text)} :
        /\ macroList' = r.list
        /\ bannedMacroList' = r.banned
        /\ pc' = IF r.rtn # 0 THEN "usage" ELSE "args"
        /\ last' = [NoStep EXCEPT !.op = "ban", !.line = u, !.rtn = r.rtn]
        /\ hist' = [hist EXCEPT !.log = Append(@, [op |-> "ban", name |-> u.name,
                                                   arg |-> <<>>])]
  /\ optind' = optind + 1
  /\ UNCHANGED <<cmdcond, condstate, ifdepth, linebuf, instream, pb>>

\* main: newinstream(infname, 1), which starts the stream at line 1
OpenInput ==
  /\ pc = "args"
  /\ pc' = "loop"
  /\ instream' = [line |-> 1, fname |-> FNAME, parent |-> <<>>]
  /\ last' = [NoStep EXCEPT !.op = "open"]
  /\ UNCHANGED <<macroList, bannedMacroList, cmdcond, condstate, ifdepth, linebuf,
                 optind, hist, pb>>

\* main, one pass of the read loop over a line that iscmdline() accepts:
\* readline, processcmdline, and the break when it fails
Directive(l) ==
  /\ pc = "loop" /\ instream.line <= MaxLines
  /\ Len(l.text) < BufSize /\ iscmdline(l.text)
  /\ l.op = "include" => Len(instream.parent) < MaxNesting
  /\ \E r \in {processcmdline(Globals, Env, readline(linebuf, l.text), BufSize)} :
        \E o \in Outcomes(r.ub) :
          /\ linebuf' = r.m
          /\ macroList' = r.g.macroList
          /\ bannedMacroList' = r.g.bannedMacroList
          /\ cmdcond' = r.g.cmdcond
          /\ condstate' = r.g.condstate
          /\ ifdepth' = r.g.ifdepth
          /\ pc' = IF o = "crash" THEN "crash"
                   ELSE IF hardError(r.rtn) THEN "error" ELSE "loop"
          /\ last' = [op |-> l.op, line |-> l, rtn |-> r.rtn, active |-> condstate # 0,
                      emitted |-> FALSE, out |-> <<>>]
          /\ hist' = IF ~hardError(r.rtn) /\ o = "go" THEN HistDirective(hist, l) ELSE hist
          /\ instream' = r.g.instream
  /\ UNCHANGED <<optind, pb>>

\* main, one pass of the read loop over any other line: readline, nothing
\* more while condstate is 0, else processBuffer, strcat and fputs, and the
\* break when processBuffer fails
TextLine(l) ==
  /\ pc = "loop" /\ instream.line <= MaxLines
  /\ Len(l.text) < BufSize /\ ~iscmdline(l.text)
  /\ \E r \in {IF condstate = 0
                THEN [rtn |-> 0, m |-> readline(linebuf, l.text), ub |-> FALSE]
                ELSE processBuffer(Env, FALSE, readline(linebuf, l.text), 0, BufSize)} :
     \E c \in {IF condstate = 0 \/ hardError(r.rtn) THEN [m |-> r.m, ub |-> FALSE]
                ELSE strcatNewline(r.m)} :
        \E o \in Outcomes(r.ub \/ c.ub) :
          /\ linebuf' = c.m
          /\ pc' = IF o = "crash" THEN "crash"
                   ELSE IF hardError(r.rtn) THEN "error" ELSE "loop"
          /\ last' = [op |-> "text", line |-> l, rtn |-> r.rtn, active |-> condstate # 0,
                      emitted |-> condstate # 0 /\ ~hardError(r.rtn) /\ o = "go",
                      out |-> IF condstate # 0 /\ ~hardError(r.rtn) /\ o = "go"
                              THEN CStr(r.m, 0) ELSE <<>>]
  /\ instream' = [instream EXCEPT !.line = @ + 1]
  /\ UNCHANGED <<macroList, bannedMacroList, cmdcond, condstate, ifdepth, optind, hist, pb>>

\* main, one pass of the read loop at the end of an included file: readline
\* stores an empty line, releases the stream, which makes its parent the
\* current one, and returns 0; main handles the empty line as any other
EndOfInclude ==
  /\ pc = "loop" /\ instream.parent # <<>>
  /\ instream' = [line |-> instream.parent[1].line, fname |-> instream.parent[1].fname,
                  parent |-> Tail(instream.parent)]
  /\ \E r \in {IF condstate = 0
                THEN [rtn |-> 0, m |-> readline(linebuf, <<>>), ub |-> FALSE]
                ELSE processBuffer([list |-> macroList, line |-> instream.parent[1].line,
                                    fname |-> instream.parent[1].fname],
                                   FALSE, readline(linebuf, <<>>), 0, BufSize)} :
     \E c \in {IF condstate = 0 \/ hardError(r.rtn) THEN [m |-> r.m, ub |-> FALSE]
                ELSE strcatNewline(r.m)} :
        \E o \in Outcomes(r.ub \/ c.ub) :
          /\ linebuf' = c.m
          /\ pc' = IF o = "crash" THEN "crash"
                   ELSE IF hardError(r.rtn) THEN "error" ELSE "loop"
          /\ last' = [op |-> "text", line |-> Line(<<>>, "text", <<>>, <<>>, <<>>),
                      rtn |-> r.rtn,
                      active |-> condstate # 0,
                      emitted |-> condstate # 0 /\ ~hardError(r.rtn) /\ o = "go",
                      out |-> <<>>]
  /\ UNCHANGED <<macroList, bannedMacroList, cmdcond, condstate, ifdepth, optind, hist, pb>>

\* main: readline finds the end of the input, the loop ends
EndOfFile ==
  /\ pc = "loop" /\ instream.parent = <<>>
  /\ pc' = "eof"
  /\ last' = [NoStep EXCEPT !.op = "eof"]
  /\ UNCHANGED <<macroList, bannedMacroList, cmdcond, condstate, ifdepth, linebuf,
                 instream, optind, hist, pb>>

-----------------------------------------------------------------------------
(* Conditional compilation: the inputs are made of these lines *)

HASH_IF == <<"#", "i", "f", " ">>
HASH_IFDEF == <<"#", "i", "f", "d", "e", "f", " ">>
HASH_IFNDEF == <<"#", "i", "f", "n", "d", "e", "f", " ">>
HASH_ELSE == <<"#", "e", "l", "s", "e">>
HASH_ENDIF == <<"#", "e", "n", "d", "i", "f">>
HASH_DEFINE == <<"#", "d", "e", "f", "i", "n", "e", " ">>
HASH_UNDEF == <<"#", "u", "n", "d", "e", "f", " ">>

If(expr) == Line(HASH_IF \o expr, "if", <<>>, expr, <<>>)
Ifdef(name) == Line(HASH_IFDEF \o name, "ifdef", name, <<>>, <<>>)
Ifndef(name) == Line(HASH_IFNDEF \o name, "ifndef", name, <<>>, <<>>)
Else == Line(HASH_ELSE, "else", <<>>, <<>>, <<>>)
Endif == Line(HASH_ENDIF, "endif", <<>>, <<>>, <<>>)
Text(text) == Line(text, "text", <<>>, <<>>, <<>>)

\* 2^32: nonzero as a long, 0 in its low 32 bits
WIDE == <<"0", "x", "1", "0", "0", "0", "0", "0", "0", "0", "0">>

Lines ==
  {If(<<"0">>), If(WIDE), Ifdef(<<"A">>), Ifndef(<<"A">>), Else, Endif, Text(<<"x">>)}

Next ==
  \/ OpenInput
  \/ \E l \in Lines : Directive(l)
  \/ \E l \in Lines : TextLine(l)
  \/ EndOfFile

Spec == Init /\ [][Next]_vars

\* C1: with only #if, #ifdef, #ifndef, #else and #endif, properly nested, a
\* line that is no directive is written to the output exactly when it lies,
\* for every block around it, in the branch the block's condition selects
C1_Selected ==
  (last.op = "text" /\ hist.nested /\ pc \in {"loop", "error"})
    => (last.emitted <=> AllSelected(hist.ref))

\* C1, where the nesting is at work: a line of a block nested in a skipped
\* branch is not written
C1_NestedSkipped ==
  last.op = "text" /\ hist.nested /\ Len(hist.ref) = 2 /\ ~Selected(hist.ref[2])
    /\ ~last.emitted /\ ifdepth = 1

-----------------------------------------------------------------------------
(* The macro table: -D and -U options, then #define, #undef and uses of M *)

Define(head, name, replace) ==
  Line(HASH_DEFINE \o head \o <<" ">> \o replace, "define", name, replace, <<>>)
Undef(name) == Line(HASH_UNDEF \o name, "undef", name, <<>>, <<>>)
\* the argument of -D: name=value
OptD(name, value) == Line(name \o <<"=">> \o value, "define", name, value, <<>>)
\* the argument of -U
OptU(name) == Line(name, "ban", name, <<>>, <<>>)

M == <<"M">>

TableOptions == {OptD(M, <<"1">>), OptD(M, <<"2">>), OptU(M)}

TableLines ==
  {Define(M, M, <<"1">>), Define(M, M, <<"2">>), Undef(M), Text(M)}

NextTable ==
  \/ \E d \in {o \in TableOptions : o.op = "define"} : OptionD(d)
  \/ \E u \in {o \in TableOptions : o.op = "ban"} : OptionU(u)
  \/ OpenInput
  \/ \E l \in TableLines : Directive(l)
  \/ \E l \in TableLines : TextLine(l)
  \/ EndOfFile

SpecTable == Init /\ [][NextTable]_vars

\* the entries of the history that are about name
About(name) == {i \in 1..Len(hist.log) : hist.log[i].name = name}
\* the entry i is the last one about its name
IsLatest(i) == \A j \in About(hist.log[i].name) : j <= i
\* the entry about the same name that precedes entry i, 0 when there is none
Before(i) ==
  LET earlier == {j \in About(hist.log[i].name) : j < i}
  IN IF earlier = {} THEN 0 ELSE CHOOSE j \in earlier : \A k \in earlier : k <= j
Banned(name) == \E i \in About(name) : hist.log[i].op = "ban"
\* the replacement text a lookup of name finds, <<NUL>> when it finds none
Lookup(name) ==
  IF findMacro(macroList, name) = 0 THEN <<NUL>>
  ELSE macroList[findMacro(macroList, name)].replace

\* C2: when M has been defined with R1 and then, with no undef in between,
\* with R2, every later lookup of M finds R2 and every later expansion of M
\* writes R2
C2_LastDefinitionWins ==
  \A i \in 1..Len(hist.log) :
    (/\ hist.log[i].op = "define" /\ IsLatest(i) /\ ~Banned(hist.log[i].name)
     /\ Before(i) # 0 /\ hist.log[Before(i)].op = "define")
    => /\ Lookup(hist.log[i].name) = hist.log[i].arg
       /\ (last.emitted /\ last.line.text = hist.log[i].name)
            => last.out = hist.log[i].arg

\* C3: once M has been undefined, whatever defines came before, M is not
\* defined and no longer expanded, until it is defined again
C3_UndefRemoves ==
  \A i \in 1..Len(hist.log) :
    (hist.log[i].op = "undef" /\ IsLatest(i))
    => /\ isdefinedMacro(macroList, hist.log[i].name) = 0
       /\ (last.emitted /\ last.line.text = hist.log[i].name)
            => last.out = hist.log[i].name

\* C4: a name that has been banned is not defined, right after the ban and
\* at any later time
C4_BannedNeverDefined ==
  \A i \in 1..Len(hist.log) :
    hist.log[i].op = "ban" => isdefinedMacro(macroList, hist.log[i].name) = 0

-----------------------------------------------------------------------------
(* #if over the defined operator and over identifiers *)

\* the sequences of ss, joined by sep
RECURSIVE Join(_, _)
Join(ss, sep) ==
  IF ss = <<>> THEN <<>>
  ELSE IF Len(ss) = 1 THEN ss[1]
  ELSE ss[1] \o sep \o Join(Tail(ss), sep)

DefinedParen(name) == DEFINED \o <<"(">> \o name \o <<")">>
DefinedPlain(name) == DEFINED \o <<" ">> \o name

\* #if defined(N1)||defined(N2)... or, without the parentheses,
\* #if defined N1||defined N2...
IfDefined(names, paren) ==
  LET tests == [i \in 1..Len(names) |->
                  IF paren THEN DefinedParen(names[i]) ELSE DefinedPlain(names[i])]
      expr == Join(tests, <<"|", "|">>)
  IN Line(HASH_IF \o expr, "ifdefined", <<>>, expr, names)
\* #if NAME for a name that is no macro
IfIdent(name) == Line(HASH_IF \o name, "ifident", name, name, <<>>)

X == <<"X">>
Y == <<"Y">>
N == <<"N">>

DefinedLines ==
  {Define(X, X, <<"0">>), Define(Y, Y, <<"1">>),
   IfDefined(<<X, Y>>, TRUE), IfDefined(<<X, Y>>, FALSE),
   IfDefined(<<X>>, TRUE), IfDefined(<<X>>, FALSE),
   IfIdent(N), Endif, Text(<<"x">>)}

NextDefined ==
  \/ OpenInput
  \/ \E l \in DefinedLines : Directive(l)
  \/ \E l \in DefinedLines : TextLine(l)
  \/ EndOfFile

SpecDefined == Init /\ [][NextDefined]_vars

\* C10: an active #if over defined(X) or defined X is decided by the
\* presence of the names in the macro table, whatever their replacement
\* texts, and an active #if over an identifier that is no macro is false;
\* neither is an error
C10_DefinedOperator ==
  /\ (last.op = "ifdefined" /\ last.active)
       => /\ last.rtn = 0 /\ pc = "loop"
          /\ (condstate # 0) <=>
               (\E i \in 1..Len(last.line.names) :
                  isdefinedMacro(macroList, last.line.names[i]) = 1)
  /\ (last.op = "ifident" /\ last.active /\ findMacro(macroList, last.line.name) = 0)
       => (last.rtn = 0 /\ pc = "loop" /\ condstate = 0)

\* C10, where it holds: defined(X) for a macro X whose replacement text is 0
C10_DefinedTrue ==
  /\ last.op = "ifdefined" /\ last.active /\ last.line.names = <<X>>
  /\ Lookup(X) = <<"0">> /\ condstate = 1

-----------------------------------------------------------------------------
(* Expansion: definitions of macros, then lines that use them *)

\* the start of a function-like definition: name(p1,p2,...)
MacroHead(name, params) == name \o <<"(">> \o Join(params, <<",">>) \o <<")">>
\* a line that is the bare name of a macro
Bare(name) == Line(name, "bare", name, <<>>, <<>>)
\* a line that is name(a1,a2,...): args are its top-level arguments
Invoke(name, args) == Line(MacroHead(name, args), "invoke", name, <<>>, args)

F == <<"F">>
G == <<"G">>
Z == <<"Z">>
MAX_PLUS_X == <<"m", "a", "x", "+", "x">>
A_B == <<"a", " ", "b">>
F_OF_M == <<"f", "(", "M", ")">>
QUOTED_A == <<"\"", "a", "\"">>

ExpandLines ==
  {Define(MacroHead(F, <<<<"x">>>>), F, MAX_PLUS_X),
   Define(MacroHead(G, <<<<"a">>, <<"b">>>>), G, A_B),
   Define(MacroHead(Z, <<>>), Z, <<"9">>),
   Define(M, M, <<"1">>),
   Bare(F),
   Invoke(F, <<<<"7">>>>), Invoke(F, <<<<"1">>, <<"2">>>>), Invoke(F, <<QUOTED_A, <<"b">>>>),
   Invoke(G, <<<<"1">>>>), Invoke(G, <<<<"1">>, <<"2">>>>),
   Invoke(Z, <<>>), Invoke(Z, <<<<"1">>>>),
   Text(F_OF_M), Text(<<"(", "M", ")">>)}

NextExpand ==
  \/ OpenInput
  \/ \E l \in ExpandLines : Directive(l)
  \/ \E l \in ExpandLines : TextLine(l)
  \/ EndOfFile

SpecExpand == Init /\ [][NextExpand]_vars

\* the macro a lookup of name finds; only where findMacro finds one
Found(name) == macroList[findMacro(macroList, name)]
IsNamed(p) == p # <<>>
\* the number of parameters of a macro: the list of Z() holds one parameter
\* that has no name
Arity(macro) == Len(SelectSeq(macro.param, IsNamed))
\* the line the last step has read uses the macro name as the text of an
\* active line
Uses(op) ==
  /\ last.op = "text" /\ last.active /\ last.line.op = op
  /\ findMacro(macroList, last.line.name) # 0

\* C5: the bare name of a function-like macro, with no parenthesis after
\* it, is written unchanged and processBuffer returns 0
C5_BareNameKept ==
  (Uses("bare") /\ Found(last.line.name).param # <<>>)
    => (last.rtn = 0 /\ last.emitted /\ last.out = last.line.text)

\* C6: an invocation of a macro of n > 0 parameters with fewer or more than
\* n top-level arguments makes processBuffer fail; a macro of no parameters
\* invoked with () expands to its replacement text, and with an argument
\* makes processBuffer fail
C6_ArityChecked ==
  (Uses("invoke") /\ Found(last.line.name).param # <<>>)
    => LET n == Arity(Found(last.line.name))
           k == Len(last.line.names)
       IN /\ (n > 0 /\ k # n) => last.rtn # 0
          /\ (n = 0 /\ k > 0) => last.rtn # 0
          /\ (n = 0 /\ k = 0)
               => (last.rtn = 0 /\ last.out = Found(last.line.name).replace)

\* Substitution of whole identifiers, as the language defines it: in text,
\* from position i on, every identifier that is one of names is replaced by
\* the text of the same index of values; string literals are copied
IdChar(c) == isalnum(c) \/ c = "_"
\* the position after the run of identifier characters that starts at i
RunEnd(text, i) ==
  CHOOSE j \in i..(Len(text) + 1) :
    /\ \A k \in i..(j - 1) : IdChar(text[k])
    /\ (j = Len(text) + 1 \/ ~IdChar(text[j]))
\* the position after the string literal that starts at i
StringEnd(text, i) ==
  LET closing == {j \in (i + 1)..Len(text) : text[j] = DQ /\ text[j - 1] # BS}
  IN IF closing = {} THEN Len(text) + 1
     ELSE 1 + CHOOSE j \in closing : \A k \in closing : j <= k
RECURSIVE Substitute(_, _, _, _)
Substitute(text, i, names, values) ==
  IF i > Len(text) THEN <<>>
  ELSE IF text[i] = DQ
  THEN SubSeq(text, i, StringEnd(text, i) - 1)
         \o Substitute(text, StringEnd(text, i), names, values)
  ELSE IF IdChar(text[i])
  THEN LET j == RunEnd(text, i)
           token == SubSeq(text, i, j - 1)
           hits == {n \in 1..Len(names) : names[n] = token}
       IN (IF hits = {} THEN token ELSE values[CHOOSE n \in hits : TRUE])
            \o Substitute(text, j, names, values)
  ELSE <<text[i]>> \o Substitute(text, i + 1, names, values)

\* C7: the expansion of a function-like macro replaces, in the replacement
\* text, exactly the whole identifiers that are parameters: an identifier
\* that only contains a parameter name, as max contains x, stays as it is
C7_WholeParameters ==
  (/\ Uses("invoke") /\ Arity(Found(last.line.name)) > 0
   /\ Arity(Found(last.line.name)) = Len(last.line.names))
    => /\ last.rtn = 0
       /\ last.out = Substitute(Found(last.line.name).replace, 1,
                                 Found(last.line.name).param, last.line.names)

\* the object-like macro M is defined with the replacement text 1, no other
\* name of the line is a macro
OnlyM ==
  /\ last.op = "text" /\ last.active /\ last.line.op = "text"
  /\ Lookup(M) = <<"1">> /\ findMacro(macroList, <<"f">>) = 0

\* C8: every whole-identifier occurrence of an object-like macro outside a
\* string literal is replaced by the replacement text, also within the
\* parentheses that follow an identifier that is no macro
C8_EveryOccurrence ==
  OnlyM => /\ last.rtn = 0
           /\ last.out = Substitute(last.line.text, 1, <<M>>, <<<<"1">>>>)

\* C8, where it holds: M within parentheses that follow no identifier
C8_InParentheses ==
  OnlyM /\ last.line.text = <<"(", "M", ")">> /\ last.out = <<"(", "1", ")">>

-----------------------------------------------------------------------------
(* processBuffer pass by pass: the call of main, one pass of its while loop *)
(* at a time                                                                *)

\* the lines of input up to which a call of processBuffer is followed pass
\* by pass
MaxFollowed == 3

\* main reads a line that is no directive while condstate is not 0 and
\* enters processBuffer(buf, sizeof(buf), 0)
BeginExpand(l) ==
  /\ pc = "loop" /\ instream.line <= MaxFollowed
  /\ Len(l.text) < BufSize /\ ~iscmdline(l.text) /\ condstate # 0
  /\ linebuf' = readline(linebuf, l.text)
  /\ pb' = processBufferStart(readline(linebuf, l.text), 0, BufSize)
  /\ pc' = "expand"
  /\ instream' = [instream EXCEPT !.line = @ + 1]
  /\ last' = [NoStep EXCEPT !.op = "begin", !.line = l]
  /\ UNCHANGED <<macroList, bannedMacroList, cmdcond, condstate, ifdepth, optind, hist>>

\* one pass of the while loop of processBuffer
ExpandStep ==
  /\ pc = "expand" /\ pb.status = "run"
  /\ pb' = processBufferLoop([list |-> macroList, line |-> instream.line, fname |-> FNAME],
                             FALSE, 0, pb)
  /\ UNCHANGED <<macroList, bannedMacroList, cmdcond, condstate, ifdepth, linebuf,
                 instream, optind, pc, last, hist>>

\* processBuffer returns to main: the break when it has failed, else strcat
\* and fputs
EndExpand ==
  /\ pc = "expand" /\ pb.status # "run"
  /\ LET rtn == IF pb.status = "ok" THEN 0 ELSE 0 - 1
         c == IF hardError(rtn) THEN [m |-> pb.m, ub |-> FALSE] ELSE strcatNewline(pb.m)
     IN \E o \in Outcomes(pb.status = "ub" \/ c.ub) :
          /\ linebuf' = c.m
          /\ pc' = IF o = "crash" THEN "crash"
                   ELSE IF hardError(rtn) THEN "error" ELSE "loop"
          /\ last' = [op |-> "text", line |-> last.line, rtn |-> rtn, active |-> TRUE,
                      emitted |-> ~hardError(rtn) /\ o = "go",
                      out |-> IF ~hardError(rtn) /\ o = "go" THEN CStr(pb.m, 0) ELSE <<>>]
  /\ pb' = Idle
  /\ UNCHANGED <<macroList, bannedMacroList, cmdcond, condstate, ifdepth, instream,
                 optind, hist>>

R == <<"R">>
A == <<"A">>
B == <<"B">>
S == <<"S">>

\* a macro that names itself, two macros that name each other, a macro that
\* names itself twice
BufferLines ==
  {Define(R, R, R), Define(A, A, B), Define(B, B, A), Define(S, S, <<"S", " ", "S">>),
   Text(R), Text(A), Text(S)}

NextBuffer ==
  \/ OpenInput
  \/ \E l \in BufferLines : Directive(l)
  \/ \E l \in BufferLines : BeginExpand(l)
  \/ ExpandStep
  \/ EndExpand
  \/ EndOfFile

\* the code of processBuffer runs on until it returns
SpecBuffer ==
  Init /\ [][NextBuffer]_vars /\ WF_vars(ExpandStep) /\ WF_vars(EndExpand)

\* C9: every call of processBuffer returns, whatever the macro table:
\* macros that name themselves, once or several times, or each other
C9_Terminates == (pc = "expand") ~> (pc # "expand")

\* C9, at work: the restart counter has reached its cap in a call over a
\* macro that names itself
C9_CapReached ==
  pc = "expand" /\ pb.rc = MAX_RESTARTS /\ Lookup(R) = R /\ last.line.text = R

-----------------------------------------------------------------------------
(* Conditions that fail: a division by zero in the expression, a directive  *)
(* that does not fit the open block                                         *)

HASH_ELIF == <<"#", "e", "l", "i", "f", " ">>

Elif(expr) == Line(HASH_ELIF \o expr, "elif", <<>>, expr, <<>>)

ONE_DIV_ZERO == <<"1", "/", "0">>
ONE_MOD_ZERO == <<"1", "%", "0">>
ZERO_AND_DIV == <<"0", "&", "&", "1", "/", "0">>
ONE_OR_DIV == <<"1", "|", "|", "1", "/", "0">>
ZERO_AND_ONE == <<"0", "&", "&", "1">>

\* the expressions that divide by zero
DivideByZero == {ONE_DIV_ZERO, ONE_MOD_ZERO}
\* the expressions whose left operand decides: the value the language gives
ShortCircuit == {ZERO_AND_DIV, ONE_OR_DIV}
ShortCircuitValue(expr) == IF expr = ONE_OR_DIV THEN 1 ELSE 0

CondLines ==
  {If(<<"1">>), If(<<"0">>), Elif(<<"1">>), Else, Endif, Text(<<"x">>),
   If(ONE_DIV_ZERO), If(ONE_MOD_ZERO), Elif(ONE_DIV_ZERO),
   If(ZERO_AND_DIV), If(ONE_OR_DIV), If(ZERO_AND_ONE)}

NextCond ==
  \/ OpenInput
  \/ \E l \in CondLines : Directive(l)
  \/ \E l \in CondLines : TextLine(l)
  \/ EndOfFile

SpecCond == Init /\ [][NextCond]_vars

\* the expression of the line l, evaluated on its own
Evaluated(l) == evaluate_expression(Mem(l.arg, Len(l.arg) + 1, NUL), 0)

\* the step is the dispatch of a directive whose expression is evaluated: an
\* #if while the lines are active, an #elif of an active block that has not
\* seen its #else
Evaluates ==
  /\ condstate # 0
  /\ \/ last'.op = "if"
     \/ last'.op = "elif" /\ cmdcond # <<>> /\ cmdcond[1].state = "COND_IF"

\* C11: an #if or #elif whose expression divides by zero, with / or with %,
\* sets the division-by-zero error code and is a hard error: processcmdline
\* fails and the condition stack is as it was
C11_DivisionByZero ==
  [][(Evaluates /\ last'.line.arg \in DivideByZero)
       => /\ Evaluated(last'.line).err = "EE_DIVBYZERO" /\ ~Evaluated(last'.line).ub
          /\ last'.rtn # 0 /\ pc' = "error" /\ cmdcond' = cmdcond]_vars

\* C11, where it holds: #if 1/0 has failed and no block is open
C11_SlashIsChecked ==
  /\ last.op = "if" /\ last.line.arg = ONE_DIV_ZERO /\ last.active
  /\ last.rtn # 0 /\ pc = "error" /\ cmdcond = <<>>

\* C12: an #if over 0 && E or 1 || E, where E divides by zero, is no error:
\* the left operand decides, the block is opened with the value 0 or 1
C12_ShortCircuit ==
  [][(Evaluates /\ last'.op = "if" /\ last'.line.arg \in ShortCircuit)
       => /\ last'.rtn = 0 /\ pc' = "loop"
          /\ Len(cmdcond') = Len(cmdcond) + 1
          /\ condstate' = ShortCircuitValue(last'.line.arg)]_vars

\* C12, where the right operand is harmless: #if 0&&1 opens a block that is
\* skipped
C12_BothOperands ==
  /\ last.op = "if" /\ last.line.arg = ZERO_AND_ONE /\ last.active
  /\ last.rtn = 0 /\ condstate = 0 /\ cmdcond # <<>>

\* C14: when the innermost open block has seen its #else, a further #else or
\* an #elif of that block is a hard error, whether the lines of the #else
\* branch are written or skipped
C14_NothingAfterElse ==
  [][(/\ cmdcond # <<>> /\ cmdcond[1].state = "COND_ELSE" /\ ifdepth = 0
      /\ last'.op \in {"else", "elif"})
       => (last'.rtn # 0 /\ pc' = "error")]_vars

\* C14, where it holds: the #else branch is being written and a second #else
\* has failed
C14_ActiveElse ==
  /\ last.op = "else" /\ last.active /\ last.rtn # 0 /\ pc = "error"
  /\ cmdcond # <<>> /\ cmdcond[1].state = "COND_ELSE"

\* C15: an #endif while no block is open is a hard error
C15_UnmatchedEndif ==
  [][(cmdcond = <<>> /\ last'.op = "endif") => (last'.rtn # 0 /\ pc' = "error")]_vars

-----------------------------------------------------------------------------
(* evaluate_expression on its own: expressions over literals, parentheses   *)
(* and the binary operators, against the value the language gives them      *)

BinaryOperators ==
  {"*", "/", "%", "+", "-", "<<", ">>", "<", "<=", ">", ">=", "==", "!=", "&", "^",
   "|", "&&", "||"}

\* the precedence of a binary operator in C, the tightest first
Precedence(op) ==
  CASE op \in {"*", "/", "%"} -> 10
    [] op \in {"+", "-"} -> 9
    [] op \in {"<<", ">>"} -> 8
    [] op \in {"<", "<=", ">", ">="} -> 7
    [] op \in {"==", "!="} -> 6
    [] op = "&" -> 5
    [] op = "^" -> 4
    [] op = "|" -> 3
    [] op = "&&" -> 2
    [] op = "||" -> 1

\* the value of a op b in C, [ok, v]: not ok where C leaves it undefined
Apply(op, a, b) ==
  CASE op = "*" -> [ok |-> TRUE, v |-> Mul(a, b)]
    [] op = "/" -> IF DivTraps(a, b) THEN [ok |-> FALSE, v |-> Long(0)]
                   ELSE [ok |-> TRUE, v |-> Div(a, b)]
    [] op = "%" -> IF DivTraps(a, b) THEN [ok |-> FALSE, v |-> Long(0)]
                   ELSE [ok |-> TRUE, v |-> Mod(a, b)]
    [] op = "+" -> [ok |-> TRUE, v |-> Add(a, b)]
    [] op = "-" -> [ok |-> TRUE, v |-> Sub(a, b)]
    [] op = "<<" -> IF ~ShiftDefined(b) \/ IsNeg(a) THEN [ok |-> FALSE, v |-> Long(0)]
                    ELSE [ok |-> TRUE, v |-> ShiftLeft(a, ShiftCount(b))]
    [] op = ">>" -> IF ~ShiftDefined(b) THEN [ok |-> FALSE, v |-> Long(0)]
                    ELSE [ok |-> TRUE, v |-> ShiftRight(a, ShiftCount(b))]
    [] op = "<" -> [ok |-> TRUE, v |-> Bool(Less(a, b))]
    [] op = "<=" -> [ok |-> TRUE, v |-> Bool(~Less(b, a))]
    [] op = ">" -> [ok |-> TRUE, v |-> Bool(Less(b, a))]
    [] op = ">=" -> [ok |-> TRUE, v |-> Bool(~Less(a, b))]
    [] op = "==" -> [ok |-> TRUE, v |-> Bool(a = b)]
    [] op = "!=" -> [ok |-> TRUE, v |-> Bool(a # b)]
    [] op = "&" -> [ok |-> TRUE, v |-> BitAnd(a, b)]
    [] op = "^" -> [ok |-> TRUE, v |-> BitXor(a, b)]
    [] op = "|" -> [ok |-> TRUE, v |-> BitOr(a, b)]
    [] op = "&&" -> [ok |-> TRUE, v |-> Bool(~IsZero(a) /\ ~IsZero(b))]
    [] op = "||" -> [ok |-> TRUE, v |-> Bool(~IsZero(a) \/ ~IsZero(b))]

\* the parentheses that are open in front of token i
Depth(tokens, i) ==
  Cardinality({j \in 1..(i - 1) : tokens[j] = "("})
    - Cardinality({j \in 1..(i - 1) : tokens[j] = ")"})

\* The value of an expression in C, from its tokens: the last operator of
\* the loosest precedence outside the parentheses is applied last, to the
\* value of what stands left of it and the value of what stands right of
\* it (binary operators group from left to right); && and || do not
\* evaluate a right operand that the left one makes irrelevant
RECURSIVE RefValue(_)
RefValue(tokens) ==
  LET outer == {i \in 1..Len(tokens) :
                  tokens[i] \in BinaryOperators /\ Depth(tokens, i) = 0}
      loosest == {i \in outer :
                    \A j \in outer : Precedence(tokens[i]) <= Precedence(tokens[j])}
      at == CHOOSE i \in loosest : \A j \in loosest : j <= i
      op == tokens[at]
      left == RefValue(SubSeq(tokens, 1, at - 1))
      right == RefValue(SubSeq(tokens, at + 1, Len(tokens)))
  IN IF outer = {}
     THEN IF tokens[1] = "(" THEN RefValue(SubSeq(tokens, 2, Len(tokens) - 1))
          ELSE [ok |-> TRUE, v |-> Long(digitValue(tokens[1]))]
     ELSE IF ~left.ok THEN left
     ELSE IF op = "&&" /\ IsZero(left.v) THEN [ok |-> TRUE, v |-> Long(0)]
     ELSE IF op = "||" /\ ~IsZero(left.v) THEN [ok |-> TRUE, v |-> Long(1)]
     ELSE IF ~right.ok THEN right
     ELSE Apply(op, left.v, right.v)

\* the characters of a token, of a sequence of tokens
Chars(token) ==
  CASE token = "<<" -> <<"<", "<">> [] token = ">>" -> <<">", ">">>
    [] token = "<=" -> <<"<", "=">> [] token = ">=" -> <<">", "=">>
    [] token = "==" -> <<"=", "=">> [] token = "!=" -> <<"!", "=">>
    [] token = "&&" -> <<"&", "&">> [] token = "||" -> <<"|", "|">>
    [] OTHER -> <<token>>

RECURSIVE Spell(_)
Spell(tokens) == IF tokens = <<>> THEN <<>> ELSE Chars(Head(tokens)) \o Spell(Tail(tokens))

\* an expression to evaluate, with the tokens it is made of
Expression(tokens) == Line(Spell(tokens), "expression", <<>>, Spell(tokens), tokens)

Operands == {"1", "2", "3"}

\* a op b op c, and the two ways to put parentheses into 3 op 2 op 1
Expressions ==
  {Expression(<<a, o, b, p, c>>) :
     a \in Operands, b \in Operands, c \in Operands,
     o \in BinaryOperators, p \in BinaryOperators}
  \cup {Expression(<<"(", "3", o, "2", ")", p, "1">>) :
          o \in BinaryOperators, p \in BinaryOperators}
  \cup {Expression(<<"3", o, "(", "2", p, "1", ")">>) :
          o \in BinaryOperators, p \in BinaryOperators}

\* the caller holds the expression in a buffer
InitEval ==
  /\ macroList = <<>>
  /\ bannedMacroList = <<>>
  /\ cmdcond = <<>>
  /\ condstate = 1
  /\ ifdepth = 0
  /\ \E e \in Expressions :
       /\ linebuf = Mem(e.text, BufSize, NUL)
       /\ last = [NoStep EXCEPT !.op = "expression", !.line = e]
  /\ instream = NoStream
  /\ optind = 1
  /\ pc = "call"
  /\ hist = [ref |-> <<>>, nested |-> TRUE, log |-> <<>>]
  /\ pb = Idle

\* result_t evaluate_expression(const char *expr) on the buffer: the value
\* returned, expr_error afterwards, and whether the evaluation was stopped
Evaluate ==
  /\ pc = "call"
  /\ \E ev \in {evaluate_expression(linebuf, 0)} :
       last' = [op |-> "evaluate", line |-> last.line,
                rtn |-> IF ev.err = "EE_OK" THEN 0 ELSE 0 - 1,
                active |-> TRUE, emitted |-> FALSE, out |-> <<>>,
                value |-> ev.v, err |-> ev.err, ub |-> ev.ub]
  /\ pc' = "returned"
  /\ UNCHANGED <<macroList, bannedMacroList, cmdcond, condstate, ifdepth, linebuf,
                 instream, optind, hist, pb>>

NextEval == Evaluate

SpecEval == InitEval /\ [][NextEval]_vars

\* C13: evaluate_expression returns, for an expression over literals,
\* parentheses and binary operators that has a value in C, that value: the
\* operators bind by their precedence and group from left to right
C13_StandardPrecedence ==
  (pc = "returned" /\ RefValue(last.line.names).ok)
    => /\ last.err = "EE_OK" /\ ~last.ub
       /\ last.value = RefValue(last.line.names).v

\* C13, where it holds: with parentheses, (3-2)-1 is 0
C13_Parenthesised ==
  /\ pc = "returned" /\ last.line.names = <<"(", "3", "-", "2", ")", "-", "1">>
  /\ last.err = "EE_OK" /\ last.value = Long(0)

-----------------------------------------------------------------------------
(* The first hard error: directives and expansions that fail, and what main *)
(* does afterwards                                                          *)

HaltLines ==
  {If(<<"0">>), Else, If(ONE_DIV_ZERO), Define(MacroHead(F, <<<<"x">>>>), F, MAX_PLUS_X),
   Bare(F), Text(<<"x">>)}

NextHalt ==
  \/ OpenInput
  \/ \E l \in HaltLines : Directive(l)
  \/ \E l \in HaltLines : TextLine(l)
  \/ EndOfFile

SpecHalt == Init /\ [][NextHalt]_vars

\* C16: a line whose expansion or whose directive fails writes nothing to
\* the output, and main takes no step after it: no line is read, expanded
\* or written once processBuffer or processcmdline has failed
C16_FirstErrorEnds ==
  [][/\ last.rtn = 0
     /\ last'.rtn # 0 => (~last'.emitted /\ last'.out = <<>> /\ pc' \in {"error", "crash"})]_vars

\* C16, at work: the expansion of a line has failed while the input has
\* more lines, and main has left the read loop
C16_ExpansionFailed ==
  /\ last.op = "text" /\ last.line = Bare(F) /\ last.rtn # 0 /\ ~last.emitted
  /\ pc = "error" /\ instream.line <= MaxLines

-----------------------------------------------------------------------------
(* #define with a parameter list that is not well formed *)

\* #define followed by a definition whose parameter list is malformed
Malformed(definition) ==
  Line(HASH_DEFINE \o definition, "malformed", F, definition, <<>>)

UNCLOSED == <<"F", "(", "a">>
UNCLOSED_TEXT == <<"F", "(", "a", " ", "1">>
COMMA_LAST == <<"F", "(", "a", ",", ")", " ", "1">>
COMMA_ONLY == <<"F", "(", ",", ")", " ", "1">>
NUMBER_PARAM == <<"F", "(", "1", ")", " ", "1">>
TWO_NAMES == <<"F", "(", "a", " ", "b", ")", " ", "1">>

ParamLines ==
  {Malformed(UNCLOSED), Malformed(UNCLOSED_TEXT), Malformed(COMMA_LAST),
   Malformed(COMMA_ONLY), Malformed(NUMBER_PARAM), Malformed(TWO_NAMES),
   Define(MacroHead(F, <<<<"x">>>>), F, MAX_PLUS_X), Ifdef(F), Endif,
   Invoke(F, <<<<"7">>>>)}

NextParams ==
  \/ OpenInput
  \/ \E l \in ParamLines : Directive(l)
  \/ \E l \in ParamLines : TextLine(l)
  \/ EndOfFile

SpecParams == Init /\ [][NextParams]_vars

\* C17: an active #define whose parameter list lacks its closing
\* parenthesis, has a comma with no name before or after it, or holds a
\* token that is no identifier, fails and leaves the macro table as it was
C17_MalformedParameters ==
  [][(condstate # 0 /\ last'.op = "malformed")
       => /\ addMacro(macroList, bannedMacroList, last'.line.arg).rtn # 0
          /\ macroList' = macroList]_vars

\* C17, where it holds: a number in the place of a parameter name
C17_NumberRejected ==
  /\ last.op = "malformed" /\ last.line.arg = NUMBER_PARAM /\ last.active
  /\ pc = "loop" /\ macroList = <<>>

-----------------------------------------------------------------------------
(* The operator # in a replacement text *)

HASH_X == <<"#", "x">>
A_PLUS_B == <<"a", " ", "+", " ", "b">>
A_BACKSLASH_B == <<"a", BS, "b">>
QUOTED_A_SPACE == <<DQ, "a", DQ, " ">>

StringifyLines ==
  {Define(MacroHead(S, <<<<"x">>>>), S, HASH_X),
   Invoke(S, <<A_PLUS_B>>), Invoke(S, <<A_BACKSLASH_B>>), Invoke(S, <<QUOTED_A>>),
   Invoke(S, <<QUOTED_A_SPACE>>), Invoke(S, <<<<"a">>, <<"b">>>>), Text(<<"x">>)}

NextStringify ==
  \/ OpenInput
  \/ \E l \in StringifyLines : Directive(l)
  \/ \E l \in StringifyLines : TextLine(l)
  \/ EndOfFile

SpecStringify == Init /\ [][NextStringify]_vars

\* the text of an argument as the body of a string literal: a backslash in
\* front of every double quote and every backslash, the rest as it is
RECURSIVE Escaped(_)
Escaped(text) ==
  IF text = <<>> THEN <<>>
  ELSE IF Head(text) \in {DQ, BS} THEN <<BS, Head(text)>> \o Escaped(Tail(text))
  ELSE <<Head(text)>> \o Escaped(Tail(text))

\* C18: the expansion of S(arg), for #define S(x) #x, is the text of the
\* argument between double quotes, its spaces as they are, with a backslash
\* in front of every double quote and backslash of the argument
C18_Stringify ==
  (/\ Uses("invoke") /\ Found(last.line.name).replace = HASH_X
   /\ Len(last.line.names) = 1)
    => /\ last.rtn = 0
       /\ last.out = <<DQ>> \o Escaped(last.line.names[1]) \o <<DQ>>

\* C18, where it holds: S(a + b) gives "a + b"
C18_SpacesKept ==
  /\ Uses("invoke") /\ Found(last.line.name).replace = HASH_X
  /\ last.line.names = <<A_PLUS_B>>
  /\ last.out = <<DQ, "a", " ", "+", " ", "b", DQ>>

-----------------------------------------------------------------------------
(* The operator ## in a replacement text *)

P == <<"P">>
T == <<"T">>
Q == <<"Q">>
A_PASTE_B == <<"a", "#", "#", "b">>
A_PASTE_B_SPACED == <<"a", " ", "#", "#", " ", "b">>
A_PASTE_B_PASTE_C == <<"a", "#", "#", "b", "#", "#", "c">>
STRING_PASTE_B == <<DQ, "s", DQ, "#", "#", "b">>

\* a line that is name(a1,a2,...) with the text rest directly behind it
InvokeThen(name, args, rest) ==
  Line(MacroHead(name, args) \o rest, "invoke", name, rest, args)

PasteLines ==
  {Define(MacroHead(P, <<<<"a">>, <<"b">>>>), P, A_PASTE_B),
   Define(MacroHead(P, <<<<"a">>, <<"b">>>>), P, A_PASTE_B_SPACED),
   Define(MacroHead(T, <<<<"a">>, <<"b">>, <<"c">>>>), T, A_PASTE_B_PASTE_C),
   Define(MacroHead(Q, <<<<"a">>, <<"b">>>>), Q, STRING_PASTE_B),
   Invoke(P, <<<<"x">>, <<"y">>>>), Invoke(P, <<<<"x">>, <<"1">>>>),
   Invoke(P, <<<<"1">>, <<"2">>>>), Invoke(T, <<<<"x">>, <<"y">>, <<"z">>>>),
   Invoke(Q, <<<<"1">>, <<"x">>>>),
   InvokeThen(P, <<<<"x">>, <<"y">>>>, <<";">>), InvokeThen(P, <<<<"x">>, <<"y">>>>, <<"z">>)}

NextPaste ==
  \/ OpenInput
  \/ \E l \in PasteLines : Directive(l)
  \/ \E l \in PasteLines : TextLine(l)
  \/ EndOfFile

SpecPaste == Init /\ [][NextPaste]_vars

\* what the language makes of a replacement text that pastes, for the
\* arguments args: the arguments one behind the other; the argument within
\* the quotes of the string literal it is pasted to
Pasted(replace, args) ==
  IF replace = STRING_PASTE_B THEN <<DQ, "s">> \o args[2] \o <<DQ>>
  ELSE Join(args, <<>>)

\* the text holds ##
HasDoubleHash(text) == \E i \in 1..(Len(text) - 1) : text[i] = "#" /\ text[i + 1] = "#"

\* C19: the expansion of a macro whose replacement text is a##b, a ## b or
\* a##b##c, invoked with identifiers or numbers, is the arguments one
\* behind the other with nothing between them, and no ## is left; pasting a
\* string literal and an identifier puts the identifier within the quotes
C19_Paste ==
  (/\ Uses("invoke")
   /\ Found(last.line.name).replace
        \in {A_PASTE_B, A_PASTE_B_SPACED, A_PASTE_B_PASTE_C, STRING_PASTE_B}
   /\ Arity(Found(last.line.name)) = Len(last.line.names))
    => /\ last.rtn = 0
       /\ last.out = Pasted(Found(last.line.name).replace, last.line.names) \o last.line.arg
       /\ ~HasDoubleHash(last.out)

\* C19, where it holds: the invocation is the whole line, a ## b with x and
\* y gives xy
C19_WholeLine ==
  /\ Uses("invoke") /\ Found(last.line.name).replace = A_PASTE_B_SPACED
  /\ last.line.text = MacroHead(P, <<<<"x">>, <<"y">>>>) /\ last.out = <<"x", "y">>

-----------------------------------------------------------------------------
(* #line: the directive, then lines that read __LINE__ and __FILE__ *)

HASH_LINE == <<"#", "l", "i", "n", "e", " ">>

\* the number and the file name the #line directives of the inputs give
LINE_N == <<"7">>
LINE_FILE == <<"f", ".", "c">>
\* an object-like macro whose replacement text is __LINE__
HERE == <<"H">>

\* #line N: name is the file name, none here, arg the digits of N
LineNumber(n) == Line(HASH_LINE \o n, "line", <<>>, n, <<>>)
\* #line N "file"
LineFile(n, file) ==
  Line(HASH_LINE \o n \o <<" ", DQ>> \o file \o <<DQ>>, "line", file, n, <<>>)

LineLines ==
  {LineNumber(LINE_N), LineFile(LINE_N, LINE_FILE), If(<<"0">>), Endif,
   Text(NAME_LINE), Text(NAME_FILE), Text(<<"x">>),
   Define(HERE, HERE, NAME_LINE), Bare(HERE)}

NextLine ==
  \/ OpenInput
  \/ \E l \in LineLines : Directive(l)
  \/ \E l \in LineLines : TextLine(l)
  \/ EndOfFile

SpecLine == Init /\ [][NextLine]_vars

\* C20: when a #line N directive has been processed in an active region,
\* __LINE__ on the line that follows it expands to N, and when the
\* directive gave a file name, __FILE__ on the line that follows expands to
\* that name between double quotes
C20_LineDirective ==
  [][(/\ last.op = "line" /\ last.active /\ last.rtn = 0
      /\ last'.op = "text" /\ last'.emitted)
       => /\ last'.line.text = NAME_LINE => last'.out = last.line.arg
          /\ (last'.line.text = NAME_FILE /\ last.line.name # <<>>)
               => last'.out = <<DQ>> \o last.line.name \o <<DQ>>]_vars

\* C20, the case: #line 7 "f.c" has been accepted on the first line of the
\* input and the second line is still to be read
C20_DirectiveAccepted ==
  /\ last.op = "line" /\ last.line = LineFile(LINE_N, LINE_FILE)
  /\ last.active /\ last.rtn = 0 /\ pc = "loop" /\ instream.line = 2

\* the line the step reads is written with its macros expanded
Written(text) ==
  /\ pc = "loop" /\ condstate # 0
  /\ last'.op = "text" /\ last'.emitted /\ last'.line.text = text

-----------------------------------------------------------------------------
(* Chains of #if, #elif, #else and #endif *)

\* the step reads a directive of one of ops while the innermost open block
\* is not nested in a skipped block
ChainStep(ops) ==
  /\ pc = "loop" /\ cmdcond # <<>> /\ ifdepth = 0
  /\ last'.op \in ops /\ last'.rtn = 0

\* C22: of the branches of one chain at most one is written: an #elif or an
\* #else that ends a branch that was active starts a branch that is not
C22_OneBranch ==
  [][(ChainStep({"elif", "else"}) /\ condstate # 0) => condstate' = 0]_vars

\* C22, where it holds: the #else of a block whose #if was true
C22_ElseOfTrueIf ==
  /\ last.op = "else" /\ last.active /\ last.rtn = 0 /\ pc = "loop"
  /\ Len(cmdcond) = 1 /\ cmdcond[1].ifstate # 0 /\ condstate = 0

\* the first line is an #if whose condition is false, the second one, which
\* the last step has read, is #elif 1
FalseIfThenElif ==
  /\ pc = "loop" /\ instream.line = 3 /\ Len(cmdcond) = 1
  /\ last.op = "elif" /\ last.line.arg = <<"1">> /\ ~last.active /\ last.rtn = 0

\* C23: after an #if whose condition is false, an #elif whose condition is
\* true starts an active branch, and the lines of the branch are written
C23_ElifTaken ==
  [][/\ (ChainStep({"elif"}) /\ last.op = "if" /\ last.active /\ condstate = 0
           /\ last'.line.arg = <<"1">>) => condstate' # 0
     /\ (FalseIfThenElif /\ last'.op = "text") => last'.emitted]_vars

\* C23, its case: #if 0, then #elif 1
C23_ElifAfterFalseIf ==
  FalseIfThenElif /\ cmdcond[1].state = "COND_IF" /\ cmdcond[1].ifstate = 0

-----------------------------------------------------------------------------
(* Directives in a branch that is skipped *)

HASH_INCLUDE == <<"#", "i", "n", "c", "l", "u", "d", "e", " ">>

\* #include followed by arg, which is the macro name when it is one
Include(name, arg) == Line(HASH_INCLUDE \o arg, "include", name, arg, <<>>)
\* a directive processcmdline does not know
Unknown == Line(<<"#", "f", "o", "o">>, "unknown", <<>>, <<>>, <<>>)

\* a file that does not exist
QUOTED_N == <<DQ, "n", DQ>>

SkipLines ==
  {Define(M, M, <<"1">>), Undef(M), If(<<"0">>), Ifdef(M), If(ONE_DIV_ZERO),
   Elif(<<"1">>), Else, Endif, Include(<<>>, QUOTED_N), Unknown, Text(M)}

NextSkip ==
  \/ OpenInput
  \/ \E l \in SkipLines : Directive(l)
  \/ \E l \in SkipLines : TextLine(l)
  \/ EndOfFile

SpecSkip == Init /\ [][NextSkip]_vars

\* the step reads a directive while condstate is 0, and the directive is
\* not the #else or the #endif of the innermost open block
SkippedDirective ==
  /\ pc = "loop" /\ condstate = 0
  /\ last'.line.text # <<>> /\ iscmdline(last'.line.text)
  /\ ~(last'.op \in {"else", "endif"} /\ ifdepth = 0)

\* C24: a directive read in a skipped branch, other than the #else or the
\* #endif that ends the branch, changes neither the macro table, nor the
\* stack of open blocks, nor condstate, nor the stack of input streams, and
\* is no error
C24_SkippedDirectives ==
  [][SkippedDirective
       => /\ macroList' = macroList /\ bannedMacroList' = bannedMacroList
          /\ cmdcond' = cmdcond /\ condstate' = 0
          /\ instream'.parent = instream.parent /\ instream'.fname = instream.fname
          /\ last'.rtn = 0 /\ pc' = "loop"]_vars

\* C24, at work: the #else of a block that lies in a skipped branch
C24_NestedElse ==
  /\ last.op = "else" /\ ~last.active /\ ifdepth = 1 /\ condstate = 0
  /\ Len(cmdcond) = 1 /\ cmdcond[1].state = "COND_IF" /\ pc = "loop"

\* C25: with no open block the output is active; ifdepth is never negative;
\* while ifdepth is positive the output is not active; a block is pushed
\* only by a directive read while the output is active
C25_CondInvariants ==
  /\ [](/\ cmdcond = <<>> => condstate # 0
        /\ ifdepth >= 0
        /\ ifdepth > 0 => condstate = 0)
  /\ [][Len(cmdcond') > Len(cmdcond) => condstate # 0]_vars

\* C25, at work: an #ifdef M read in the skipped branch of #if 0, M being
\* defined
C25_CountedNotPushed ==
  /\ last.op = "ifdef" /\ ~last.active /\ isdefinedMacro(macroList, M) = 1
  /\ ifdepth = 1 /\ Len(cmdcond) = 1 /\ condstate = 0

-----------------------------------------------------------------------------
(* #include: the file named by the directive, or by a macro *)

\* a file that exists, between quotes
QUOTED_H == <<DQ, "h", DQ>>
\* an object-like macro whose replacement text names the file
INC == <<"I">>

IncludeLines ==
  {Include(<<>>, QUOTED_H), Define(INC, INC, QUOTED_H), Include(INC, INC), Text(<<"x">>)}

NextInclude ==
  \/ OpenInput
  \/ \E l \in IncludeLines : Directive(l)
  \/ \E l \in IncludeLines : TextLine(l)
  \/ EndOfInclude
  \/ EndOfFile

SpecInclude == Init /\ [][NextInclude]_vars

\* the file the text names between quotes, when it is one of the directory
Named(text) == {f \in Files : text = <<DQ>> \o f \o <<DQ>>}

\* the step has pushed the stream of file f, at its first line, on the
\* stream that has read the directive
Opens(f) ==
  /\ last'.rtn = 0 /\ pc' = "loop"
  /\ instream' = [line |-> 1, fname |-> f,
                  parent |-> <<[line |-> instream.line + 1, fname |-> instream.fname]>>
                               \o instream.parent]

\* C29: an active #include followed by the name of a macro whose replacement
\* text is the quoted name of a file opens that file, as the directive does
\* that holds the quoted name itself
C29_IncludeMacro ==
  [][(pc = "loop" /\ condstate # 0 /\ last'.op = "include")
       => /\ \A f \in Named(last'.line.arg) : Opens(f)
          /\ last'.line.name # <<>> => \A f \in Named(Lookup(last'.line.name)) : Opens(f)]_vars

\* C29, its case: #include I has been read while I stands for "h"
C29_MacroNamesFile ==
  /\ last.op = "include" /\ last.active /\ last.line = Include(INC, INC)
  /\ Named(Lookup(INC)) = {<<"h">>}

-----------------------------------------------------------------------------
(* Chains of object-like macros: processBuffer over a buffer that holds the *)
(* first name of a chain several times                                      *)

\* the names of a chain, in the order of the chain
ChainNames == <<"A", "B", "C", "D", "E", "F", "G", "H">>
\* the longest chain
MaxChain == Len(ChainNames)
\* what the last name of a chain stands for
ChainValues == {<<"1">>, <<"x">>}
\* what separates the occurrences
Separators == {<<" ">>, <<",">>}

\* the macro table after #define A B, #define B C, ... of a chain of k names
\* that ends in v
RECURSIVE ChainTable(_, _)
ChainTable(k, v) ==
  IF k = 0 THEN <<>>
  ELSE addMacro(ChainTable(k - 1, v), <<>>,
                <<ChainNames[k], " ">>
                  \o (IF k = 1 THEN v ELSE <<ChainNames[k - 1]>>)).list

\* n times the text, sep between them
RECURSIVE Repeat(_, _, _)
Repeat(text, n, sep) ==
  IF n = 1 THEN text ELSE text \o sep \o Repeat(text, n - 1, sep)

\* a line that holds the first name of a chain of k names n times
Chain(k, n, sep, v) ==
  Line(Repeat(<<ChainNames[k]>>, n, sep), "chain", <<ChainNames[k]>>, Repeat(v, n, sep),
       SubSeq(ChainNames, 1, k))

\* the caller holds the line in a buffer, the table holds the chain
InitChain ==
  /\ \E k \in 1..MaxChain, v \in ChainValues, sep \in Separators :
       \E n \in {n \in 1..BufSize : 2 * n <= BufSize} :
         /\ macroList = ChainTable(k, v)
         /\ linebuf = Mem(Chain(k, n, sep, v).text, BufSize, NUL)
         /\ last = [NoStep EXCEPT !.op = "chain", !.line = Chain(k, n, sep, v)]
  /\ bannedMacroList = <<>>
  /\ cmdcond = <<>>
  /\ condstate = 1
  /\ ifdepth = 0
  /\ instream = [line |-> 1, fname |-> FNAME, parent |-> <<>>]
  /\ optind = 1
  /\ pc = "call"
  /\ hist = [ref |-> <<>>, nested |-> TRUE, log |-> <<>>]
  /\ pb = Idle

\* processBuffer(buf, sizeof(buf), 0) on the buffer
ExpandChain ==
  /\ pc = "call"
  /\ \E r \in {processBuffer(Env, FALSE, linebuf, 0, BufSize)} :
       /\ linebuf' = r.m
       /\ last' = [op |-> "expanded", line |-> last.line, rtn |-> r.rtn, active |-> TRUE,
                   emitted |-> r.rtn = 0 /\ ~r.ub, out |-> CStr(r.m, 0)]
  /\ pc' = "returned"
  /\ UNCHANGED <<macroList, bannedMacroList, cmdcond, condstate, ifdepth, instream,
                 optind, hist, pb>>

NextChain == ExpandChain

SpecChain == InitChain /\ [][NextChain]_vars

\* C26: when a chain of object-like macros needs no more than MAX_RESTARTS
\* rescans, processBuffer replaces every occurrence of its first name by
\* what the chain ends in, however many occurrences come before and
\* whatever separates them
C26_EveryOccurrenceOfChain ==
  (last.op = "expanded" /\ Len(last.line.names) <= MAX_RESTARTS)
    => (last.rtn = 0 /\ last.out = last.line.arg)

\* C26, where it holds: three occurrences of a chain of two names
C26_ThreeOfTwo ==
  /\ last.op = "expanded" /\ last.line = Chain(2, 3, <<" ">>, <<"1">>)
  /\ last.rtn = 0 /\ last.out = <<"1", " ", "1", " ", "1">>

-----------------------------------------------------------------------------
(* String literals among the arguments of an invocation *)

\* a string literal that holds a comma, and the same with a space after it
QUOTED_A_COMMA_B == <<DQ, "a", ",", "b", DQ>>
QUOTED_A_COMMA_B_SPACE == QUOTED_A_COMMA_B \o <<" ">>

StringLines ==
  {Define(MacroHead(G, <<<<"a">>, <<"b">>>>), G, A_B),
   Invoke(G, <<QUOTED_A_COMMA_B, <<"c">>>>), Invoke(G, <<QUOTED_A_COMMA_B_SPACE, <<"c">>>>),
   Invoke(G, <<<<"c">>, QUOTED_A_COMMA_B>>), Invoke(G, <<<<"c">>, QUOTED_A_COMMA_B_SPACE>>),
   Text(<<"x">>)}

NextString ==
  \/ OpenInput
  \/ \E l \in StringLines : Directive(l)
  \/ \E l \in StringLines : TextLine(l)
  \/ EndOfFile

SpecString == Init /\ [][NextString]_vars

\* C27: a string literal is one piece of the argument that holds it: the
\* comma inside "a,b" separates no arguments, and the comma or the
\* parenthesis that follows the literal ends the argument, so that G("a,b",c)
\* and G(c,"a,b") are invocations with two arguments
C27_StringArgument ==
  (/\ Uses("invoke") /\ Arity(Found(last.line.name)) = 2 /\ Len(last.line.names) = 2)
    => /\ last.rtn = 0
       /\ last.out = Substitute(Found(last.line.name).replace, 1,
                                 Found(last.line.name).param, last.line.names)

\* C27, where it holds: a space between the literal and the comma
C27_SpaceAfterLiteral ==
  /\ Uses("invoke") /\ last.line.names = <<QUOTED_A_COMMA_B_SPACE, <<"c">>>>
  /\ last.rtn = 0 /\ last.out = QUOTED_A_COMMA_B_SPACE \o <<" ", "c">>

-----------------------------------------------------------------------------
(* Conditions whose value does not fit an int *)

WideLines ==
  {If(<<"0">>), If(<<"1">>), If(WIDE), Elif(WIDE), Endif, Text(<<"x">>)}

NextWide ==
  \/ OpenInput
  \/ \E l \in WideLines : Directive(l)
  \/ \E l \in WideLines : TextLine(l)
  \/ EndOfFile

SpecWide == Init /\ [][NextWide]_vars

\* C28: the branch an active #if E opens, and the branch the #elif E after a
\* false #if opens, is active exactly when the value of E as a long is not
\* 0, as the value of 0x100000000 is
C28_WideCondition ==
  [][/\ (pc = "loop" /\ condstate # 0 /\ last'.op = "if" /\ last'.rtn = 0)
          => (condstate' # 0 <=> RefCond(last'.line))
     /\ (ChainStep({"elif"}) /\ last.op = "if" /\ last.active /\ condstate = 0)
          => (condstate' # 0 <=> RefCond(If(last'.line.arg)))]_vars

\* C28, its case: #if 0x100000000 has been read where the output is active
C28_WideIf ==
  /\ last.op = "if" /\ last.line = If(WIDE) /\ last.active /\ last.rtn = 0
  /\ RefCond(last.line) /\ pc = "loop" /\ Len(cmdcond) = 1

-----------------------------------------------------------------------------
(* Character constants with an escape sequence *)

\* the simple escape sequences of C: the character after the backslash and
\* the code of the character the sequence stands for
EscapeCodes ==
  <<<<"n", 10>>, <<"t", 9>>, <<"r", 13>>, <<"0", 0>>, <<"a", 7>>, <<"b", 8>>, <<"f", 12>>,
    <<"v", 11>>, <<BS, 92>>, <<"'", 39>>, <<DQ, 34>>>>
\* characters that start no escape sequence
NoEscapes == {"q", "z"}

Recognized(e) == \E i \in 1..Len(EscapeCodes) : EscapeCodes[i][1] = e
EscapeCode(e) == EscapeCodes[CHOOSE i \in 1..Len(EscapeCodes) : EscapeCodes[i][1] = e][2]

\* the constant for the escape of e, alone when rest is empty, else
\* followed by an operator and a digit
CharExpression(e, rest) ==
  Line(<<"'", BS, e, "'">> \o Spell(rest), "char", <<e>>, <<"'", BS, e, "'">>, rest)

CharExpressions ==
  {CharExpression(EscapeCodes[i][1], <<>>) : i \in 1..Len(EscapeCodes)}
  \cup {CharExpression(e, <<>>) : e \in NoEscapes}
  \cup {CharExpression(EscapeCodes[i][1], <<o, d>>) :
          i \in 1..Len(EscapeCodes), o \in {"+", "*"}, d \in Operands}
  \cup {CharExpression(e, <<o, d>>) : e \in NoEscapes, o \in {"+", "*"}, d \in Operands}

\* the caller holds the expression in a buffer
InitChar ==
  /\ macroList = <<>>
  /\ bannedMacroList = <<>>
  /\ cmdcond = <<>>
  /\ condstate = 1
  /\ ifdepth = 0
  /\ \E e \in CharExpressions :
       /\ linebuf = Mem(e.text, BufSize, NUL)
       /\ last = [NoStep EXCEPT !.op = "expression", !.line = e]
  /\ instream = NoStream
  /\ optind = 1
  /\ pc = "call"
  /\ hist = [ref |-> <<>>, nested |-> TRUE, log |-> <<>>]
  /\ pb = Idle

NextChar == Evaluate

SpecChar == InitChar /\ [][NextChar]_vars

\* the value of the constant of code c in the expression of the line l
CharValue(c, l) ==
  IF l.names = <<>> THEN Long(c)
  ELSE IF l.names[1] = "+" THEN Long(c + (Ord(l.names[2]) - Ord("0")))
  ELSE Long(c * (Ord(l.names[2]) - Ord("0")))

\* C30: a character constant that holds a backslash and the character of a
\* simple escape sequence has the code of the character the sequence stands
\* for, and is read up to its closing quote, so that what follows it is
\* evaluated; a backslash before any other character sets an error code
C30_EscapedCharacter ==
  (pc = "returned" /\ last.line.op = "char")
    => IF Recognized(last.line.name[1])
       THEN /\ last.err = "EE_OK" /\ ~last.ub
            /\ last.value = CharValue(EscapeCode(last.line.name[1]), last.line)
       ELSE last.err # "EE_OK"

\* C30, its case: the constant of the newline, followed by +1, has been
\* evaluated
C30_NewlinePlusOne ==
  /\ pc = "returned" /\ last.op = "evaluate"
  /\ last.line = CharExpression("n", <<"+", "1">>)

====
